---- MODULE Spec2Model ----
(***************************************************************************)
(* Model of the roboprojekt rules engine: robots on a board of stacked     *)
(* tiles (backend.py), the tile effects (util.py), card-driven walking,    *)
(* effect-driven moving, conveyor belts and the end-of-round sweep.        *)
(***************************************************************************)
EXTENDS Integers, Sequences, FiniteSets, TLC

VARIABLES board, robots, game_round, pc, express, robots_to_move, belt_tiles, ops, last, entry

vars == <<board, robots, game_round, pc, express, robots_to_move, belt_tiles, ops, last, entry>>

(***************************************************************************)
(* Bounds of the model.                                                    *)
(***************************************************************************)
\* Largest number of robots put on a board.
MaxRobots == 3
\* Largest distance of a walk or move call.
MaxDist == 2
\* Largest number of card or movement calls in one behaviour of Spec.
MaxOps == 2

(***************************************************************************)
(* util.py: Direction and Rotation.                                        *)
(***************************************************************************)
N == 0
E == 90
S == 180
W == 270
Direction == {N, E, S, W}

LEFT == -90
RIGHT == 90
U_TURN == 180
Rotation == {LEFT, RIGHT, U_TURN}

\* A faulty Direction.__add__ that turns right whatever the rotation.
get_new_direction_clockwise(direction, where_to) ==
    (direction + (IF where_to < 0 THEN -where_to ELSE where_to)) % 360

\* Direction.__add__ / Direction.get_new_direction
get_new_direction(direction, where_to) == (direction + where_to) % 360

coor_delta(direction) ==
    CASE direction = N -> <<0, 1>>
      [] direction = E -> <<1, 0>>
      [] direction = S -> <<0, -1>>
      [] direction = W -> <<-1, 0>>

get_next_coordinates(coordinates, direction) ==
    <<coordinates[1] + coor_delta(direction)[1], coordinates[2] + coor_delta(direction)[2]>>

(***************************************************************************)
(* util.py: tiles.  A tile is a record of its class (type), its direction  *)
(* and the class-specific properties; properties a class does not have     *)
(* keep a default.                                                         *)
(***************************************************************************)
Tile(type, direction) ==
    [type |-> type, direction |-> direction, direction_out |-> N, express |-> FALSE,
     register |-> 0, move_direction |-> LEFT, laser_strength |-> 0,
     laser_start |-> FALSE, flag_number |-> 0, new_start |-> FALSE, start |-> 0]

GroundTile == Tile("ground", N)
WallTile(direction) == Tile("wall", direction)
HoleTile == Tile("hole", N)
\* start is the number of the starting square (the digit of the tile's path)
StartTile(number) == [Tile("starting_square", N) EXCEPT !.start = number]
BeltTile(direction, direction_out, is_express) ==
    [Tile("belt", direction) EXCEPT !.direction_out = direction_out, !.express = is_express]
PusherTile(direction, register) == [Tile("pusher", direction) EXCEPT !.register = register]
GearTile(move_direction) == [Tile("gear", N) EXCEPT !.move_direction = move_direction]
LaserTile(direction, strength, is_start) ==
    [Tile("laser", direction) EXCEPT !.laser_strength = strength, !.laser_start = is_start]
FlagTile(number) == [Tile("flag", N) EXCEPT !.flag_number = number]
RepairTile(new_start) == [Tile("repair", N) EXCEPT !.new_start = new_start]

\* Tile.can_move_from / WallTile.can_move_from
can_move_from(tile, direction) ==
    IF tile.type = "wall" THEN ~(tile.direction = direction) ELSE TRUE

\* Tile.can_move_to / WallTile.can_move_to
can_move_to(tile, direction) ==
    IF tile.type = "wall"
    THEN ~(get_new_direction(tile.direction, U_TURN) = direction)
    ELSE TRUE

(***************************************************************************)
(* Boards.  A board maps coordinates to a stack (sequence) of tiles.       *)
(***************************************************************************)
Grid(w, h) == {<<x, y>> : x \in 0..(w - 1), y \in 0..(h - 1)}

\* A 4 x 2 board with walls, a double hole and two starting squares.
\*   y=1:  wall(E)   start2   hole+hole   wall(S)
\*   y=0:  ground    start1   ground      wall(E)
WallBoard ==
    [c \in Grid(4, 2) |->
        CASE c = <<1, 0>> -> <<GroundTile, StartTile(1)>>
          [] c = <<1, 1>> -> <<GroundTile, StartTile(2)>>
          [] c = <<3, 0>> -> <<GroundTile, WallTile(E)>>
          [] c = <<0, 1>> -> <<GroundTile, WallTile(E)>>
          [] c = <<2, 1>> -> <<GroundTile, HoleTile, HoleTile>>
          [] c = <<3, 1>> -> <<GroundTile, WallTile(S)>>
          [] OTHER -> <<GroundTile>>]

\* A 3 x 3 board of conveyor belts.
\*   y=2:  belt E      belt W        start2         (head-on lanes)
\*   y=1:  belt E      crossroad S   belt W         (T crossroad)
\*   y=0:  express E   express E     start1         (a lane ending on ground)
BeltBoard ==
    [c \in Grid(3, 3) |->
        CASE c = <<0, 2>> -> <<GroundTile, BeltTile(E, N, FALSE)>>
          [] c = <<1, 2>> -> <<GroundTile, BeltTile(W, N, FALSE)>>
          [] c = <<2, 2>> -> <<GroundTile, StartTile(2)>>
          [] c = <<0, 1>> -> <<GroundTile, BeltTile(E, N, FALSE)>>
          [] c = <<1, 1>> -> <<GroundTile, BeltTile(N, U_TURN, FALSE)>>
          [] c = <<2, 1>> -> <<GroundTile, BeltTile(W, N, FALSE)>>
          [] c = <<0, 0>> -> <<GroundTile, BeltTile(E, N, TRUE)>>
          [] c = <<1, 0>> -> <<GroundTile, BeltTile(E, N, TRUE)>>
          [] c = <<2, 0>> -> <<GroundTile, StartTile(1)>>
          [] OTHER -> <<GroundTile>>]

\* The board of belts with two walls: one between the two express belts, one
\* between the crossroad and the belt east of it.
WalledBeltBoard ==
    [c \in Grid(3, 3) |->
        CASE c = <<0, 0>> -> Append(BeltBoard[c], WallTile(E))
          [] c = <<1, 1>> -> Append(BeltBoard[c], WallTile(E))
          [] OTHER -> BeltBoard[c]]

\* A 3 x 3 board of belts carrying robots onto a pusher, a gear, a laser with a
\* flag and a repair site, and off the board.
\*   y=2:  belt E   laser start E (strength 3) + flag 1 + repair   laser E
\*   y=1:  belt E   pusher facing N, odd registers (pushes S)      belt E (off the board)
\*   y=0:  belt E   gear LEFT                                      ground
EffectsBoard ==
    [c \in Grid(3, 3) |->
        CASE c = <<0, 2>> -> <<GroundTile, BeltTile(E, N, FALSE)>>
          [] c = <<1, 2>> -> <<GroundTile, LaserTile(E, 3, TRUE), FlagTile(1), RepairTile(TRUE)>>
          [] c = <<2, 2>> -> <<GroundTile, LaserTile(E, 3, FALSE)>>
          [] c = <<0, 1>> -> <<GroundTile, BeltTile(E, N, FALSE)>>
          [] c = <<1, 1>> -> <<GroundTile, PusherTile(N, 1)>>
          [] c = <<2, 1>> -> <<GroundTile, BeltTile(E, N, FALSE)>>
          [] c = <<0, 0>> -> <<GroundTile, BeltTile(E, N, FALSE)>>
          [] c = <<1, 0>> -> <<GroundTile, GearTile(LEFT)>>
          [] OTHER -> <<GroundTile>>]

\* A 3 x 3 board of flags, lasers, pushers and repair sites.
\*   y=2:  belt E            belt E + flag 1           flag 2 + gear right
\*   y=1:  laser start E     laser E                   laser E
\*   y=0:  pusher E (even)   pusher E (even) + repair  wall N + pusher N (odd) + repair
\*         + gear left
\* Only the repair site of (2,0) is a new start.
SiteBoard ==
    [c \in Grid(3, 3) |->
        CASE c = <<0, 2>> -> <<GroundTile, BeltTile(E, N, FALSE)>>
          [] c = <<1, 2>> -> <<GroundTile, BeltTile(E, N, FALSE), FlagTile(1)>>
          [] c = <<2, 2>> -> <<GroundTile, FlagTile(2), GearTile(RIGHT)>>
          [] c = <<0, 1>> -> <<GroundTile, LaserTile(E, 3, TRUE)>>
          [] c = <<1, 1>> -> <<GroundTile, LaserTile(E, 3, FALSE)>>
          [] c = <<2, 1>> -> <<GroundTile, LaserTile(E, 3, FALSE)>>
          [] c = <<0, 0>> -> <<GroundTile, PusherTile(W, 0), GearTile(LEFT)>>
          [] c = <<1, 0>> -> <<GroundTile, PusherTile(W, 0), RepairTile(FALSE)>>
          [] c = <<2, 0>> -> <<GroundTile, WallTile(N), PusherTile(S, 1), RepairTile(TRUE)>>
          [] OTHER -> <<GroundTile>>]

\* A 3 x 3 board of rotating belts.
\*   y=2:  ground    belt S                      ground
\*   y=1:  belt E    belt E turning right (to S) ground
\*   y=0:  ground    belt S turning left (to E)  crossroad N (to S)
TurnBoard ==
    [c \in Grid(3, 3) |->
        CASE c = <<1, 2>> -> <<GroundTile, BeltTile(S, N, FALSE)>>
          [] c = <<0, 1>> -> <<GroundTile, BeltTile(E, N, FALSE)>>
          [] c = <<1, 1>> -> <<GroundTile, BeltTile(E, RIGHT, FALSE)>>
          [] c = <<1, 0>> -> <<GroundTile, BeltTile(S, LEFT, FALSE)>>
          [] c = <<2, 0>> -> <<GroundTile, BeltTile(N, U_TURN, FALSE)>>
          [] OTHER -> <<GroundTile>>]

\* A 3 x 3 board of ground tiles.
OpenBoard == [c \in Grid(3, 3) |-> <<GroundTile>>]

\* A faulty State.get_tiles with plain ground around the board.
get_tiles_ground_around(coordinates) ==
    IF coordinates \in DOMAIN board THEN board[coordinates] ELSE <<GroundTile>>

\* State.get_tiles
get_tiles(coordinates) ==
    IF coordinates \in DOMAIN board THEN board[coordinates] ELSE <<HoleTile>>

(***************************************************************************)
(* backend.py: Robot.                                                      *)
(***************************************************************************)
\* Coordinates of every inactive robot (Robot.inactive, Robot.die).
Inactive == <<-1, -1>>

\* Robot.__init__: a new robot has 3 lives, no flags and 4 damages.
InitLives == 3
InitDamages == 4

Robot(direction, name, coordinates) ==
    [name |-> name, direction |-> direction, coordinates |-> coordinates,
     start_coordinates |-> coordinates, lives |-> InitLives, flags |-> 0,
     damages |-> InitDamages]

\* Robot.inactive
inactive(robot) == robot.coordinates = Inactive

\* A faulty Robot.die that takes the start_coordinates of the robot off the
\* board together with the robot.
die_with_start(robot) ==
    [robot EXCEPT !.lives = robot.lives - 1, !.coordinates = Inactive,
                  !.start_coordinates = Inactive]

\* Robot.die
die(robot) == [robot EXCEPT !.lives = robot.lives - 1, !.coordinates = Inactive]

\* A faulty Robot.rotate that takes the rotation for the new direction.
rotate_absolute(robot, where_to) ==
    [robot EXCEPT !.direction = where_to % 360]

\* Robot.rotate
rotate(robot, where_to) ==
    [robot EXCEPT !.direction = get_new_direction(robot.direction, where_to)]

\* Tile.kill_robot / HoleTile.kill_robot
kill_robot(tile, robot) == IF tile.type = "hole" THEN die(robot) ELSE robot

\* Robot.check_hole: every tile under the robot may kill it; the loop stops
\* as soon as the robot is inactive.
RECURSIVE check_hole_from(_, _, _)
check_hole_from(robot, tiles, k) ==
    IF k > Len(tiles) THEN robot
    ELSE LET killed == kill_robot(tiles[k], robot)
         IN IF inactive(killed) THEN killed ELSE check_hole_from(killed, tiles, k + 1)

check_hole(robot) == check_hole_from(robot, get_tiles(robot.coordinates), 1)

\* A faulty check_wall that looks at the tiles of the current cell only.
check_wall_from_only(coordinates, direction) ==
    LET old_tiles == get_tiles(coordinates)
    IN ~(\E k \in 1..Len(old_tiles) : ~can_move_from(old_tiles[k], direction))

\* check_wall: FALSE when a tile of the current cell forbids leaving in the
\* direction, or a tile of the next cell forbids entering in the direction.
check_wall(coordinates, direction) ==
    LET old_tiles == get_tiles(coordinates)
        new_tiles == get_tiles(get_next_coordinates(coordinates, direction))
    IN IF \E k \in 1..Len(old_tiles) : ~can_move_from(old_tiles[k], direction)
       THEN FALSE
       ELSE IF \E k \in 1..Len(new_tiles) : ~can_move_to(new_tiles[k], direction)
            THEN FALSE
            ELSE TRUE

\* A faulty search that never finds a robot on the cell ahead.
robot_on_nobody(rs, coordinates) == 0

\* Index of the first robot of the sequence standing on the coordinates, 0 if none
\* (the search loops of Robot.walk and Robot.move).
robot_on(rs, coordinates) ==
    IF \E j \in 1..Len(rs) : rs[j].coordinates = coordinates
    THEN CHOOSE j \in 1..Len(rs) :
            /\ rs[j].coordinates = coordinates
            /\ \A k \in 1..(j - 1) : rs[k].coordinates # coordinates
    ELSE 0

\* The value of walk's optional argument direction when it is not given.
None == -1

\* One entry of the log of step attempts of a call: the robot, the cell it
\* stood on, the cell ahead, the direction, the method (walk or move), the
\* depth of the call (0: the call itself, 1: the walk of a robot it pushes, ...)
\* and what happened: "step" (the robot was put on the cell ahead),
\* "wall" (check_wall failed, the loop ended) or "robot" (the cell ahead stayed
\* occupied, the robot was not put there).
Step(kind, call, robot, direction, depth) ==
    [kind |-> kind, call |-> call, robot |-> robot.name, from |-> robot.coordinates,
     to |-> get_next_coordinates(robot.coordinates, direction),
     direction |-> direction, depth |-> depth]

\* The robot at index i put on the cell ahead, followed by check_hole.
advance(rs, i, next_coordinates) ==
    [rs EXCEPT ![i] = check_hole([rs[i] EXCEPT !.coordinates = next_coordinates])]

\* Robot.walk.  st is the record of the robots sequence and the step log.
RECURSIVE walk(_, _, _, _, _)
RECURSIVE walk_loop(_, _, _, _, _)
\* A faulty Robot.walk that does not turn the robot back after walking
\* backwards.
walk_facing_back(st, i, distance, direction_arg, depth) ==
    LET direction == IF direction_arg = None THEN st.robots[i].direction ELSE direction_arg
    IN IF distance < 0
       THEN LET turned == [st EXCEPT !.robots[i] = rotate(st.robots[i], U_TURN)]
            IN walk_loop(turned, i, -distance, turned.robots[i].direction, depth)
       ELSE walk_loop(st, i, distance, direction, depth)

\* A faulty Robot.walk that walks a single step backwards whatever the
\* distance.
walk_backwards_one_step(st, i, distance, direction_arg, depth) ==
    LET direction == IF direction_arg = None THEN st.robots[i].direction ELSE direction_arg
    IN IF distance < 0
       THEN LET turned == [st EXCEPT !.robots[i] = rotate(st.robots[i], U_TURN)]
                walked == walk(turned, i, 1, None, depth)
            IN [walked EXCEPT !.robots[i] = rotate(walked.robots[i], U_TURN)]
       ELSE walk_loop(st, i, distance, direction, depth)

walk(st, i, distance, direction_arg, depth) ==
    LET direction == IF direction_arg = None THEN st.robots[i].direction ELSE direction_arg
    IN IF distance < 0
       THEN LET turned == [st EXCEPT !.robots[i] = rotate(st.robots[i], U_TURN)]
                walked == walk(turned, i, -distance, None, depth)
            IN [walked EXCEPT !.robots[i] = rotate(walked.robots[i], U_TURN)]
       ELSE walk_loop(st, i, distance, direction, depth)

\* A faulty loop of Robot.walk that turns the robot in the way to the
\* direction it is pushed in.
walk_loop_turning_pushed(st, i, remaining, direction, depth) ==
    IF remaining <= 0 THEN st
    ELSE
      LET self == st.robots[i]
          next_coordinates == get_next_coordinates(self.coordinates, direction)
          robot_in_the_way == robot_on(st.robots, next_coordinates)
      IN IF ~check_wall(self.coordinates, direction)
         THEN [st EXCEPT !.steps = Append(st.steps, Step("wall", "walk", self, direction, depth))]
         ELSE IF robot_in_the_way # 0
              THEN LET walked == walk(st, robot_in_the_way, 1, direction, depth + 1)
                       pushed == [walked EXCEPT !.robots[robot_in_the_way].direction = direction]
                   IN IF pushed.robots[robot_in_the_way].coordinates # next_coordinates
                      THEN walk_loop(
                             [robots |-> advance(pushed.robots, i, next_coordinates),
                              steps |-> Append(pushed.steps, Step("step", "walk", self, direction, depth))],
                             i, remaining - 1, direction, depth)
                      ELSE walk_loop(
                             [pushed EXCEPT !.steps =
                                 Append(pushed.steps, Step("robot", "walk", self, direction, depth))],
                             i, remaining - 1, direction, depth)
              ELSE walk_loop(
                     [robots |-> advance(st.robots, i, next_coordinates),
                      steps |-> Append(st.steps, Step("step", "walk", self, direction, depth))],
                     i, remaining - 1, direction, depth)

walk_loop(st, i, remaining, direction, depth) ==
    IF remaining <= 0 THEN st
    ELSE
      LET self == st.robots[i]
          next_coordinates == get_next_coordinates(self.coordinates, direction)
          robot_in_the_way == robot_on(st.robots, next_coordinates)
      IN IF ~check_wall(self.coordinates, direction)
         THEN [st EXCEPT !.steps = Append(st.steps, Step("wall", "walk", self, direction, depth))]
         ELSE IF robot_in_the_way # 0
              THEN LET pushed == walk(st, robot_in_the_way, 1, direction, depth + 1)
                   IN IF pushed.robots[robot_in_the_way].coordinates # next_coordinates
                      THEN walk_loop(
                             [robots |-> advance(pushed.robots, i, next_coordinates),
                              steps |-> Append(pushed.steps, Step("step", "walk", self, direction, depth))],
                             i, remaining - 1, direction, depth)
                      ELSE walk_loop(
                             [pushed EXCEPT !.steps =
                                 Append(pushed.steps, Step("robot", "walk", self, direction, depth))],
                             i, remaining - 1, direction, depth)
              ELSE walk_loop(
                     [robots |-> advance(st.robots, i, next_coordinates),
                      steps |-> Append(st.steps, Step("step", "walk", self, direction, depth))],
                     i, remaining - 1, direction, depth)

\* A faulty Robot.move that pushes the robots in its way, as Robot.walk does.
move_pushing(st, i, direction, remaining) ==
    walk(st, i, remaining, direction, 0)

\* Robot.move: like walk, but a robot on the cell ahead is never pushed.
RECURSIVE move(_, _, _, _)
move(st, i, direction, remaining) ==
    IF remaining <= 0 THEN st
    ELSE
      LET self == st.robots[i]
          next_coordinates == get_next_coordinates(self.coordinates, direction)
          robot_check == robot_on(st.robots, next_coordinates) = 0
      IN IF ~check_wall(self.coordinates, direction)
         THEN [st EXCEPT !.steps = Append(st.steps, Step("wall", "move", self, direction, 0))]
         ELSE IF robot_check
              THEN move([robots |-> advance(st.robots, i, next_coordinates),
                         steps |-> Append(st.steps, Step("step", "move", self, direction, 0))],
                        i, direction, remaining - 1)
              ELSE move([st EXCEPT !.steps =
                            Append(st.steps, Step("robot", "move", self, direction, 0))],
                        i, direction, remaining - 1)

(***************************************************************************)
(* The state.  last is the record of the last completed call: its name,    *)
(* the robot it was made on, its arguments, the robots before it and the   *)
(* log of its step attempts.                                               *)
(***************************************************************************)
Call(op, name, distance, direction, steps) ==
    [op |-> op, robot |-> name, distance |-> distance, direction |-> direction,
     before |-> robots, steps |-> steps]

NoCall == [op |-> "none", robot |-> 0, distance |-> 0, direction |-> None,
           before |-> <<>>, steps |-> <<>>]

\* Cells of a board a robot can be put on: every cell without a hole.
Standable(b) == {c \in DOMAIN b : \A k \in 1..Len(b[c]) : b[c][k].type # "hole"}

\* Sequences of n pairwise distinct cells of a set.
Placements(cells, n) ==
    {p \in [1..n -> cells] : \A j, k \in 1..n : j # k => p[j] # p[k]}

\* State.__init__ on a given board with robots built by Robot.__init__
\* (facing N as in get_robots_to_start) on pairwise distinct cells.
InitOn(b, cells) ==
    /\ board = b
    /\ \E n \in 1..MaxRobots : \E p \in Placements(cells, n) :
          robots = [j \in 1..n |-> Robot(N, j, p[j])]
    /\ game_round = 1
    /\ pc = "idle"
    /\ express = TRUE
    /\ robots_to_move = <<>>
    /\ belt_tiles = <<>>
    /\ ops = 0
    /\ last = NoCall
    /\ entry = [call |-> robots, pass |-> robots]

Distances == (-MaxDist..MaxDist) \ {0}

\* A call of Robot.walk(distance, state, direction) on the robot at index i.
Walk(i, distance, direction_arg) ==
    /\ pc = "idle"
    /\ LET done == walk([robots |-> robots, steps |-> <<>>], i, distance, direction_arg, 0)
       IN /\ robots' = done.robots
          /\ last' = Call("walk", robots[i].name, distance, direction_arg, done.steps)
    /\ ops' = ops + 1
    /\ UNCHANGED <<board, game_round, pc, express, robots_to_move, belt_tiles, entry>>

\* A call of Robot.move(direction, distance, state) on the robot at index i.
Move(i, direction, distance) ==
    /\ pc = "idle"
    /\ LET done == move([robots |-> robots, steps |-> <<>>], i, direction, distance)
       IN /\ robots' = done.robots
          /\ last' = Call("move", robots[i].name, distance, direction, done.steps)
    /\ ops' = ops + 1
    /\ UNCHANGED <<board, game_round, pc, express, robots_to_move, belt_tiles, entry>>

\* A call of Robot.rotate(where_to) on the robot at index i.
Rotate(i, where_to) ==
    /\ pc = "idle"
    /\ robots' = [robots EXCEPT ![i] = rotate(robots[i], where_to)]
    /\ last' = Call("rotate", robots[i].name, 0, where_to, <<>>)
    /\ ops' = ops + 1
    /\ UNCHANGED <<board, game_round, pc, express, robots_to_move, belt_tiles, entry>>

(***************************************************************************)
(* backend.py: conveyor belts.                                             *)
(***************************************************************************)
\* The rotation a belt applies to its own direction to get the direction it
\* carries robots in (read by move_belts as tile.belt_rotation): the
\* direction-out parameter of the belt.
belt_rotation(tile) == tile.direction_out

\* A faulty BeltTile.rotate_robot_on_belt that turns the robot whatever the
\* direction it entered the tile from.
rotate_robot_on_belt_any_entry(tile, robot, direction) ==
    IF tile.type # "belt" THEN robot
    ELSE IF tile.direction_out = U_TURN
         THEN IF get_new_direction(tile.direction, RIGHT) = direction
              THEN rotate(robot, RIGHT)
              ELSE rotate(robot, LEFT)
         ELSE IF tile.direction_out \in Rotation
              THEN rotate(robot, tile.direction_out)
              ELSE robot

\* A faulty BeltTile.rotate_robot_on_belt whose crossroad turns a robot
\* coming from its right side to the left and any other to the right.
rotate_robot_on_belt_crossroad_swapped(tile, robot, direction) ==
    IF tile.type # "belt" THEN robot
    ELSE IF tile.direction_out = U_TURN
         THEN IF get_new_direction(tile.direction, RIGHT) = direction
              THEN rotate(robot, LEFT)
              ELSE rotate(robot, RIGHT)
         ELSE IF tile.direction_out \in Rotation /\ direction = tile.direction
              THEN rotate(robot, tile.direction_out)
              ELSE robot

\* BeltTile.rotate_robot_on_belt (Tile.rotate_robot_on_belt changes nothing)
rotate_robot_on_belt(tile, robot, direction) ==
    IF tile.type # "belt" THEN robot
    ELSE IF tile.direction_out = U_TURN
         THEN IF get_new_direction(tile.direction, RIGHT) = direction
              THEN rotate(robot, RIGHT)
              ELSE rotate(robot, LEFT)
         ELSE IF tile.direction_out \in Rotation
              THEN IF direction = tile.direction
                   THEN rotate(robot, tile.direction_out)
                   ELSE robot
              ELSE robot

\* The loop of move_belts over the tiles of the cell the robot was moved to.
RECURSIVE rotate_on_tiles(_, _, _, _)
rotate_on_tiles(robot, tiles, direction, k) ==
    IF k > Len(tiles) THEN robot
    ELSE rotate_on_tiles(rotate_robot_on_belt(tiles[k], robot, direction), tiles, direction, k + 1)

\* A tile object is identified by its cell and its place in the stack.
TileAt(ref) == board[ref.at][ref.layer]

\* A faulty selection that takes every belt in both passes.
belt_layers_all(coordinates, is_express) ==
    LET tiles == get_tiles(coordinates)
    IN SelectSeq([k \in 1..Len(tiles) |-> k], LAMBDA k : tiles[k].type = "belt")

\* The belt tiles of a cell that get_robots_on_belts selects, as places in the stack.
belt_layers(coordinates, is_express) ==
    LET tiles == get_tiles(coordinates)
        selected(k) == /\ tiles[k].type = "belt"
                       /\ \/ is_express = tiles[k].express
                          \/ is_express = FALSE
    IN SelectSeq([k \in 1..Len(tiles) |-> k], selected)

\* get_robots_on_belts: one entry per robot and selected belt tile under it,
\* robots in the order of state.robots.
RECURSIVE get_robots_on_belts(_, _, _)
get_robots_on_belts(rs, is_express, j) ==
    IF j > Len(rs) THEN [robots_to_move |-> <<>>, belt_tiles |-> <<>>]
    ELSE LET layers == belt_layers(rs[j].coordinates, is_express)
             rest == get_robots_on_belts(rs, is_express, j + 1)
         IN [robots_to_move |-> [k \in 1..Len(layers) |-> rs[j].name] \o rest.robots_to_move,
             belt_tiles |-> [k \in 1..Len(layers) |-> [at |-> rs[j].coordinates, layer |-> layers[k]]]
                                \o rest.belt_tiles]

\* list.remove: the sequence without the first occurrence of the element.
RECURSIVE remove(_, _)
remove(seq, x) ==
    IF seq = <<>> THEN <<>>
    ELSE IF Head(seq) = x THEN Tail(seq)
         ELSE <<Head(seq)>> \o remove(Tail(seq), x)

IndexOf(rs, name) == CHOOSE j \in 1..Len(rs) : rs[j].name = name

\* One pass of the for loop of move_belts (backend.py lines 348-365) over the
\* zipped lists, from position k of the list iterators.  Removing an entry
\* shifts the entries behind it, and the iterators go on at position k + 1.
\* coordinates are the cells of the robots to move, taken before the loop.
RECURSIVE belt_for_loop(_, _, _)
belt_for_loop(st, coordinates, k) ==
    IF k > Len(st.robots_to_move) \/ k > Len(st.belt_tiles) THEN st
    ELSE
      LET name == st.robots_to_move[k]
          ref == st.belt_tiles[k]
          i == IndexOf(st.robots, name)
          direction == get_new_direction(TileAt(ref).direction, belt_rotation(TileAt(ref)))
          xy == get_next_coordinates(st.robots[i].coordinates, direction)
      IN IF ~(xy \in coordinates)
         THEN LET moved == move([robots |-> st.robots, steps |-> st.steps], i, direction, 1)
                  robot == moved.robots[i]
                  rotated == IF robot.coordinates = xy
                             THEN rotate_on_tiles(robot, get_tiles(robot.coordinates), direction, 1)
                             ELSE robot
              IN belt_for_loop([robots |-> [moved.robots EXCEPT ![i] = rotated],
                                steps |-> moved.steps,
                                robots_to_move |-> remove(st.robots_to_move, name),
                                belt_tiles |-> remove(st.belt_tiles, ref)],
                               coordinates, k + 1)
         ELSE belt_for_loop(st, coordinates, k + 1)

\* A faulty iteration of the while loop of move_belts that moves every robot
\* at once, whether or not the cell it is bound for holds a robot to move.
belt_while_body_unordered(st) ==
    belt_for_loop([robots |-> st.robots, steps |-> st.steps,
                   robots_to_move |-> st.robots_to_move, belt_tiles |-> st.belt_tiles],
                  {}, 1)

\* One iteration of the while loop of move_belts.
belt_while_body(st) ==
    belt_for_loop([robots |-> st.robots, steps |-> st.steps,
                   robots_to_move |-> st.robots_to_move, belt_tiles |-> st.belt_tiles],
                  {st.robots[IndexOf(st.robots, st.robots_to_move[k])].coordinates :
                      k \in 1..Len(st.robots_to_move)},
                  1)

\* The while loop of move_belts for one kind of belts.  An iteration that
\* removes no robot leaves everything as it was, so that the loop never ends:
\* looping records that.
RECURSIVE belt_while(_)
belt_while(st) ==
    IF st.robots_to_move = <<>> \/ st.looping THEN st
    ELSE LET body == belt_while_body(st)
         IN IF Len(body.robots_to_move) = Len(st.robots_to_move)
            THEN [st EXCEPT !.looping = TRUE]
            ELSE belt_while([robots |-> body.robots, steps |-> body.steps, looping |-> FALSE,
                             robots_to_move |-> body.robots_to_move,
                             belt_tiles |-> body.belt_tiles])

belt_pass(st, is_express) ==
    IF st.looping THEN st
    ELSE belt_while([robots |-> st.robots, steps |-> <<>>, looping |-> FALSE,
                     robots_to_move |-> get_robots_on_belts(st.robots, is_express, 1).robots_to_move,
                     belt_tiles |-> get_robots_on_belts(st.robots, is_express, 1).belt_tiles])

\* move_belts: the pass over the express belts, then the pass over all belts.
move_belts(rs) ==
    belt_pass(belt_pass([robots |-> rs, looping |-> FALSE], TRUE), FALSE)

(***************************************************************************)
(* util.py: the effects of the other tiles.                                *)
(***************************************************************************)
\* The register number read by pushers and repair tiles (state.register):
\* the counter of the state, 1..5.
register == game_round

\* A faulty PusherTile.push_robot that pushes at every register.
push_robot_every_register(tile, st, i) ==
    IF tile.type = "pusher"
    THEN move(st, i, get_new_direction(tile.direction, U_TURN), 1)
    ELSE st

\* PusherTile.push_robot
push_robot(tile, st, i) ==
    IF tile.type = "pusher" /\ register % 2 = tile.register
    THEN move(st, i, get_new_direction(tile.direction, U_TURN), 1)
    ELSE st

\* A faulty GearTile.rotate_robot that turns the robots at odd registers only.
rotate_robot_odd_registers(tile, robot) ==
    IF tile.type = "gear" /\ register % 2 = 1
    THEN rotate(robot, tile.move_direction)
    ELSE robot

\* GearTile.rotate_robot
rotate_robot(tile, robot) ==
    IF tile.type = "gear" THEN rotate(robot, tile.move_direction) ELSE robot

\* The damage at which a hit kills.
FatalDamages == 10

\* Robot.be_damaged
be_damaged(robot, strength) ==
    IF robot.damages + strength < FatalDamages
    THEN [robot EXCEPT !.damages = robot.damages + strength]
    ELSE die(robot)

\* The tile the scan of LaserTile.shoot_robot looks at after its loop over the
\* tiles of a cell: the first laser tile of the laser's direction, or the last tile.
scanned_tile(tiles, direction) ==
    IF \E k \in 1..Len(tiles) : tiles[k].type = "laser" /\ tiles[k].direction = direction
    THEN tiles[CHOOSE k \in 1..Len(tiles) :
                 /\ tiles[k].type = "laser" /\ tiles[k].direction = direction
                 /\ \A m \in 1..(k - 1) :
                       ~(tiles[m].type = "laser" /\ tiles[m].direction = direction)]
    ELSE tiles[Len(tiles)]

\* The while loop of LaserTile.shoot_robot from a cell towards the start of the
\* laser: "miss" when a robot stands in between, "hit" when the start of the
\* laser is found, "loop" when the scan has left the board, where every cell
\* holds a Hole and no robot stands, so that the loop never ends.
RECURSIVE laser_scan(_, _, _)
laser_scan(tile, rs, xy) ==
    LET next_xy == get_next_coordinates(xy, get_new_direction(tile.direction, U_TURN))
        found == scanned_tile(get_tiles(next_xy), tile.direction)
    IN IF \E j \in 1..Len(rs) : rs[j].coordinates = next_xy THEN "miss"
       ELSE IF found.type = "laser" /\ found.laser_start THEN "hit"
            ELSE IF next_xy \notin DOMAIN board THEN "loop"
                 ELSE laser_scan(tile, rs, next_xy)

\* LaserTile.shoot_robot: "hit", "miss" or "loop".
shoot_robot(tile, rs, i) ==
    IF tile.type # "laser" THEN "miss"
    ELSE IF tile.laser_start THEN "hit"
         ELSE laser_scan(tile, rs, rs[i].coordinates)

\* A faulty FlagTile.collect_flag that collects a flag of any number.
collect_flag_any(tile, robot) ==
    IF tile.type # "flag" THEN robot
    ELSE [robot EXCEPT !.start_coordinates = robot.coordinates,
                       !.flags = robot.flags + 1]

\* FlagTile.collect_flag
collect_flag(tile, robot) ==
    IF tile.type # "flag" THEN robot
    ELSE [robot EXCEPT !.start_coordinates = robot.coordinates,
                       !.flags = IF robot.flags + 1 = tile.flag_number
                                 THEN robot.flags + 1 ELSE robot.flags]

\* A faulty RepairTile.repair_robot that repairs at every register.
repair_robot_every_register(tile, robot) ==
    IF tile.type # "repair" THEN robot
    ELSE [robot EXCEPT !.damages = IF robot.damages > 0
                                   THEN robot.damages - 1 ELSE robot.damages,
                       !.start_coordinates = IF tile.new_start THEN robot.coordinates
                                             ELSE robot.start_coordinates]

\* RepairTile.repair_robot
repair_robot(tile, robot) ==
    IF tile.type # "repair" THEN robot
    ELSE [robot EXCEPT !.damages = IF register = 5 /\ robot.damages > 0
                                   THEN robot.damages - 1 ELSE robot.damages,
                       !.start_coordinates = IF tile.new_start THEN robot.coordinates
                                             ELSE robot.start_coordinates]

(***************************************************************************)
(* backend.py: apply_tile_effects, stage by stage.                         *)
(***************************************************************************)
\* The robots a stage loops over: those active when the stage begins.
active_robots(rs) == SelectSeq([j \in 1..Len(rs) |-> j], LAMBDA j : ~inactive(rs[j]))

\* Pushers: every tile of the cell the robot stands on when its turn comes,
\* until the robot is inactive.
RECURSIVE push_tiles(_, _, _, _)
push_tiles(st, i, tiles, k) ==
    IF k > Len(tiles) THEN st
    ELSE LET pushed == push_robot(tiles[k], st, i)
         IN IF inactive(pushed.robots[i]) THEN pushed ELSE push_tiles(pushed, i, tiles, k + 1)

RECURSIVE push_robots(_, _, _)
push_robots(st, todo, n) ==
    IF n > Len(todo) THEN st
    ELSE push_robots(push_tiles(st, todo[n], get_tiles(st.robots[todo[n]].coordinates), 1),
                     todo, n + 1)

\* Gears.
RECURSIVE gear_tiles(_, _, _)
gear_tiles(robot, tiles, k) ==
    IF k > Len(tiles) THEN robot
    ELSE gear_tiles(rotate_robot(tiles[k], robot), tiles, k + 1)

\* A faulty gear stage that looks for gears under the cells the robots stood
\* on when apply_tile_effects was called.
gear_robots_stale(rs, todo, n) ==
    [j \in 1..Len(rs) |->
        IF \E m \in n..Len(todo) : todo[m] = j
        THEN gear_tiles(rs[j], get_tiles(entry.call[IndexOf(entry.call, rs[j].name)].coordinates), 1)
        ELSE rs[j]]

RECURSIVE gear_robots(_, _, _)
gear_robots(rs, todo, n) ==
    IF n > Len(todo) THEN rs
    ELSE gear_robots([rs EXCEPT ![todo[n]] =
                         gear_tiles(rs[todo[n]], get_tiles(rs[todo[n]].coordinates), 1)],
                     todo, n + 1)

\* Lasers.  st.looping records that a scan never ends.
RECURSIVE laser_tiles(_, _, _, _)
RECURSIVE laser_tiles_no_break(_, _, _, _)
\* A faulty laser stage that adds the strength of the laser to the damages of
\* the robot itself, whatever the damages are.
laser_tiles_adding(st, i, tiles, k) ==
    IF k > Len(tiles) THEN st
    ELSE LET shot == shoot_robot(tiles[k], st.robots, i)
         IN IF shot = "loop" THEN [st EXCEPT !.looping = TRUE]
            ELSE laser_tiles(
                   IF shot = "hit"
                   THEN [st EXCEPT !.robots[i].damages = @ + tiles[k].laser_strength]
                   ELSE st,
                   i, tiles, k + 1)

\* A faulty laser stage that goes on with the tiles of the stack after one of
\* them has made the robot inactive.
laser_tiles_no_break(st, i, tiles, k) ==
    IF k > Len(tiles) THEN st
    ELSE LET shot == shoot_robot(tiles[k], st.robots, i)
         IN IF shot = "loop" THEN [st EXCEPT !.looping = TRUE]
            ELSE laser_tiles_no_break(
                   IF shot = "hit"
                   THEN [st EXCEPT !.robots[i] =
                            be_damaged(st.robots[i], tiles[k].laser_strength)]
                   ELSE st,
                   i, tiles, k + 1)

laser_tiles(st, i, tiles, k) ==
    IF k > Len(tiles) THEN st
    ELSE LET shot == shoot_robot(tiles[k], st.robots, i)
         IN IF shot = "loop" THEN [st EXCEPT !.looping = TRUE]
            ELSE LET after == IF shot = "hit"
                              THEN [st EXCEPT !.robots[i] =
                                       be_damaged(st.robots[i], tiles[k].laser_strength)]
                              ELSE st
                 IN IF inactive(after.robots[i]) THEN after
                    ELSE laser_tiles(after, i, tiles, k + 1)

RECURSIVE laser_robots(_, _, _)
laser_robots(st, todo, n) ==
    IF n > Len(todo) \/ st.looping THEN st
    ELSE laser_robots(laser_tiles(st, todo[n], get_tiles(st.robots[todo[n]].coordinates), 1),
                      todo, n + 1)

\* Flags and repairs.
RECURSIVE flag_tiles(_, _, _)
flag_tiles(robot, tiles, k) ==
    IF k > Len(tiles) THEN robot
    ELSE flag_tiles(repair_robot(tiles[k], collect_flag(tiles[k], robot)), tiles, k + 1)

RECURSIVE flag_robots(_, _, _)
flag_robots(rs, todo, n) ==
    IF n > Len(todo) THEN rs
    ELSE flag_robots([rs EXCEPT ![todo[n]] =
                         flag_tiles(rs[todo[n]], get_tiles(rs[todo[n]].coordinates), 1)],
                     todo, n + 1)

\* A faulty sweep that drops the inactive robots instead of putting them back.
set_robots_for_new_turn_dropping_inactive(rs) ==
    SelectSeq(rs, LAMBDA robot : robot.lives > 0 /\ ~inactive(robot))

\* A faulty sweep that keeps the robots with no life left.
set_robots_for_new_turn_keeping_zero(rs) ==
    LET alive == SelectSeq(rs, LAMBDA robot : robot.lives >= 0)
    IN [j \in 1..Len(alive) |->
          IF inactive(alive[j])
          THEN [alive[j] EXCEPT !.coordinates = alive[j].start_coordinates,
                                !.damages = 0,
                                !.direction = N]
          ELSE alive[j]]

\* A faulty sweep that repairs and turns every robot it keeps, active or not.
set_robots_for_new_turn_resetting_all(rs) ==
    LET alive == SelectSeq(rs, LAMBDA robot : robot.lives > 0)
    IN [j \in 1..Len(alive) |->
          [alive[j] EXCEPT !.coordinates = IF inactive(alive[j])
                                           THEN alive[j].start_coordinates
                                           ELSE alive[j].coordinates,
                           !.damages = 0,
                           !.direction = N]]

\* set_robots_for_new_turn
set_robots_for_new_turn(rs) ==
    LET alive == SelectSeq(rs, LAMBDA robot : robot.lives > 0)
    IN [j \in 1..Len(alive) |->
          IF inactive(alive[j])
          THEN [alive[j] EXCEPT !.coordinates = alive[j].start_coordinates,
                                !.damages = 0,
                                !.direction = N]
          ELSE alive[j]]

\* apply_tile_effects is called: move_belts begins its pass over the express belts.
ApplyTileEffects ==
    /\ pc = "idle"
    /\ pc' = "belts"
    /\ express' = TRUE
    /\ robots_to_move' = get_robots_on_belts(robots, TRUE, 1).robots_to_move
    /\ belt_tiles' = get_robots_on_belts(robots, TRUE, 1).belt_tiles
    /\ last' = Call("apply_tile_effects", 0, 0, None, <<>>)
    /\ entry' = [call |-> robots, pass |-> robots]
    /\ UNCHANGED <<board, robots, game_round, ops>>

\* One iteration of the while loop of move_belts.
BeltScan ==
    /\ pc = "belts"
    /\ robots_to_move # <<>>
    /\ LET done == belt_while_body([robots |-> robots, steps |-> <<>>,
                                    robots_to_move |-> robots_to_move,
                                    belt_tiles |-> belt_tiles])
       IN /\ robots' = done.robots
          /\ robots_to_move' = done.robots_to_move
          /\ belt_tiles' = done.belt_tiles
          /\ last' = Call("belt_scan", 0, 0, None, done.steps)
    /\ UNCHANGED <<board, game_round, pc, express, ops, entry>>

\* The while loop has ended: the pass over all belts follows the pass over the
\* express belts, the pushers follow the pass over all belts.
BeltPassDone ==
    /\ pc = "belts"
    /\ robots_to_move = <<>>
    /\ IF express
       THEN /\ express' = FALSE
            /\ robots_to_move' = get_robots_on_belts(robots, FALSE, 1).robots_to_move
            /\ belt_tiles' = get_robots_on_belts(robots, FALSE, 1).belt_tiles
            /\ entry' = [entry EXCEPT !.pass = robots]
            /\ pc' = "belts"
       ELSE /\ pc' = "pusher"
            /\ UNCHANGED <<express, robots_to_move, belt_tiles, entry>>
    /\ last' = Call("belt_pass", 0, 0, None, <<>>)
    /\ UNCHANGED <<board, robots, game_round, ops>>

Pushers ==
    /\ pc = "pusher"
    /\ LET done == push_robots([robots |-> robots, steps |-> <<>>], active_robots(robots), 1)
       IN /\ robots' = done.robots
          /\ last' = Call("pusher", 0, 0, None, done.steps)
    /\ pc' = "gear"
    /\ UNCHANGED <<board, game_round, express, robots_to_move, belt_tiles, ops, entry>>

Gears ==
    /\ pc = "gear"
    /\ robots' = gear_robots(robots, active_robots(robots), 1)
    /\ last' = Call("gear", 0, 0, None, <<>>)
    /\ pc' = "laser"
    /\ UNCHANGED <<board, game_round, express, robots_to_move, belt_tiles, ops, entry>>

\* The laser stage; when a scan never ends the stage never ends, and nothing changes.
Lasers ==
    /\ pc = "laser"
    /\ LET done == laser_robots([robots |-> robots, looping |-> FALSE], active_robots(robots), 1)
       IN IF done.looping
          THEN UNCHANGED <<robots, last, pc>>
          ELSE /\ robots' = done.robots
               /\ last' = Call("laser", 0, 0, None, <<>>)
               /\ pc' = "flag"
    /\ UNCHANGED <<board, game_round, express, robots_to_move, belt_tiles, ops, entry>>

FlagsAndRepairs ==
    /\ pc = "flag"
    /\ robots' = flag_robots(robots, active_robots(robots), 1)
    /\ last' = Call("flag", 0, 0, None, <<>>)
    /\ pc' = "new_turn"
    /\ UNCHANGED <<board, game_round, express, robots_to_move, belt_tiles, ops, entry>>

\* A faulty end of apply_tile_effects that sweeps at every register.
NewTurn_every_register ==
    /\ pc = "new_turn"
    /\ robots' = set_robots_for_new_turn(robots)
    /\ last' = Call("set_robots_for_new_turn", 0, 0, None, <<>>)
    /\ pc' = "idle"
    /\ UNCHANGED <<board, game_round, express, robots_to_move, belt_tiles, ops, entry>>

\* The end of apply_tile_effects: after the 5th game round, set_robots_for_new_turn.
NewTurn ==
    /\ pc = "new_turn"
    /\ IF game_round = 5
       THEN /\ robots' = set_robots_for_new_turn(robots)
            /\ last' = Call("set_robots_for_new_turn", 0, 0, None, <<>>)
       ELSE /\ robots' = robots
            /\ last' = Call("apply_tile_effects_done", 0, 0, None, <<>>)
    /\ pc' = "idle"
    /\ UNCHANGED <<board, game_round, express, robots_to_move, belt_tiles, ops, entry>>

\* The caller goes on to the next register: 1, 2, ..., 5, 1, ...
NextRegister ==
    /\ pc = "idle"
    /\ game_round' = (game_round % 5) + 1
    /\ last' = Call("next_register", 0, 0, None, <<>>)
    /\ UNCHANGED <<board, robots, pc, express, robots_to_move, belt_tiles, ops, entry>>

TileEffects ==
    \/ ApplyTileEffects
    \/ BeltScan
    \/ BeltPassDone
    \/ Pushers
    \/ Gears
    \/ Lasers
    \/ FlagsAndRepairs
    \/ NewTurn

(***************************************************************************)
(* SpecMove: one call of walk, move or rotate on any robot of any state    *)
(* built on the board of walls and holes.                                  *)
(***************************************************************************)
InitMove == InitOn(WallBoard, Standable(WallBoard))

CallWalk ==
    /\ ops = 0
    /\ \E i \in 1..Len(robots) : \E distance \in Distances :
          \E direction \in Direction \cup {None} : Walk(i, distance, direction)

CallMove ==
    /\ ops = 0
    /\ \E i \in 1..Len(robots) : \E direction \in Direction :
          \E distance \in 1..MaxDist : Move(i, direction, distance)

CallRotate ==
    /\ ops = 0
    /\ \E i \in 1..Len(robots) : \E where_to \in Rotation : Rotate(i, where_to)

NextMove == CallWalk \/ CallMove \/ CallRotate

SpecMove == InitMove /\ [][NextMove]_vars

(***************************************************************************)
(* SpecBelts: registers of tile effects from any state built on the board  *)
(* of conveyor belts.                                                      *)
(***************************************************************************)
InitBelts ==
    \/ InitOn(BeltBoard, Standable(BeltBoard))
    \/ InitOn(WalledBeltBoard, Standable(WalledBeltBoard))

NextBelts == TileEffects

SpecBelts == InitBelts /\ [][NextBelts]_vars

\* A call of apply_tile_effects runs to its end unless a loop of it never ends.
FairBelts == SpecBelts /\ WF_vars(NextBelts)

(***************************************************************************)
(* SpecEffects: calls of apply_tile_effects at any register, from any      *)
(* state built on the board of pushers, gears, lasers, flags and repair    *)
(* sites.                                                                  *)
(***************************************************************************)
InitEffects ==
    /\ board = EffectsBoard
    /\ \E n \in 1..MaxRobots : \E p \in Placements(Standable(EffectsBoard), n) :
          robots = [j \in 1..n |-> Robot(N, j, p[j])]
    /\ game_round \in 1..5
    /\ pc = "idle"
    /\ express = TRUE
    /\ robots_to_move = <<>>
    /\ belt_tiles = <<>>
    /\ ops = 0
    /\ last = NoCall
    /\ entry = [call |-> robots, pass |-> robots]

NextEffects == TileEffects

SpecEffects == InitEffects /\ [][NextEffects]_vars

(***************************************************************************)
(* SpecSites: calls of apply_tile_effects at any register, from any state  *)
(* built on the board of flags, lasers, pushers and repair sites.          *)
(***************************************************************************)
InitSites ==
    /\ board = SiteBoard
    /\ \E n \in 1..MaxRobots : \E p \in Placements(Standable(SiteBoard), n) :
          robots = [j \in 1..n |-> Robot(N, j, p[j])]
    /\ game_round \in 1..5
    /\ pc = "idle"
    /\ express = TRUE
    /\ robots_to_move = <<>>
    /\ belt_tiles = <<>>
    /\ ops = 0
    /\ last = NoCall
    /\ entry = [call |-> robots, pass |-> robots]

NextSites == TileEffects

SpecSites == InitSites /\ [][NextSites]_vars

(***************************************************************************)
(* SpecRepairs: registers one after the other on the board of flags,       *)
(* lasers, pushers and repair sites, from any state with the robots on the *)
(* cells off the laser.                                                    *)
(***************************************************************************)
OffLaser(b) ==
    {c \in Standable(b) : \A k \in 1..Len(b[c]) : b[c][k].type # "laser"}

InitRepairs ==
    /\ board = SiteBoard
    /\ \E n \in 1..MaxRobots : \E p \in Placements(OffLaser(SiteBoard), n) :
          robots = [j \in 1..n |-> Robot(N, j, p[j])]
    /\ game_round \in 1..5
    /\ pc = "idle"
    /\ express = TRUE
    /\ robots_to_move = <<>>
    /\ belt_tiles = <<>>
    /\ ops = 0
    /\ last = NoCall
    /\ entry = [call |-> robots, pass |-> robots]

NextRepairs == TileEffects \/ NextRegister

SpecRepairs == InitRepairs /\ [][NextRepairs]_vars

(***************************************************************************)
(* SpecCards: one register on the board of rotating belts: a movement card *)
(* of one robot, then apply_tile_effects.  No robot begins on a rotating   *)
(* belt or a crossroad; the first robot faces any direction.               *)
(***************************************************************************)
Straight(b) ==
    {c \in Standable(b) :
        \A k \in 1..Len(b[c]) : b[c][k].type = "belt" => b[c][k].direction_out \notin Rotation}

InitCards ==
    /\ board = TurnBoard
    /\ \E n \in 1..MaxRobots : \E p \in Placements(Straight(TurnBoard), n) :
          \E direction \in Direction :
             robots = [j \in 1..n |-> Robot(IF j = 1 THEN direction ELSE N, j, p[j])]
    /\ game_round = 1
    /\ pc = "idle"
    /\ express = TRUE
    /\ robots_to_move = <<>>
    /\ belt_tiles = <<>>
    /\ ops = 0
    /\ last = NoCall
    /\ entry = [call |-> robots, pass |-> robots]

\* MovementCard: the robot walks the distance of the card.
MoveCard ==
    /\ ops = 0
    /\ \E i \in 1..Len(robots) : \E distance \in Distances : Walk(i, distance, None)

\* The tile effects of the register follow the card.
EffectsAfterCard ==
    /\ pc # "idle" \/ last.op = "walk"
    /\ TileEffects

NextCards == MoveCard \/ EffectsAfterCard

SpecCards == InitCards /\ [][NextCards]_vars

(***************************************************************************)
(* SpecPairs: two calls in a row on one robot of a board of plain ground:  *)
(* a walk forwards and the same walk backwards, or two rotations.  The     *)
(* first robot faces any direction; entry.call keeps the robots as they    *)
(* were before the first call.                                             *)
(***************************************************************************)
InitPairs ==
    /\ board = OpenBoard
    /\ \E n \in 1..MaxRobots : \E p \in Placements(DOMAIN OpenBoard, n) :
          \E direction \in Direction :
             robots = [j \in 1..n |-> Robot(IF j = 1 THEN direction ELSE N, j, p[j])]
    /\ game_round = 1
    /\ pc = "idle"
    /\ express = TRUE
    /\ robots_to_move = <<>>
    /\ belt_tiles = <<>>
    /\ ops = 0
    /\ last = NoCall
    /\ entry = [call |-> robots, pass |-> robots]

FirstWalk ==
    /\ ops = 0
    /\ \E i \in 1..Len(robots) : \E distance \in 1..MaxDist : Walk(i, distance, None)

WalkBack ==
    /\ ops = 1
    /\ last.op = "walk"
    /\ Walk(IndexOf(robots, last.robot), -last.distance, None)

FirstRotate ==
    /\ ops = 0
    /\ \E i \in 1..Len(robots) : \E where_to \in Rotation : Rotate(i, where_to)

SecondRotate ==
    /\ ops = 1
    /\ last.op = "rotate"
    /\ \E where_to \in Rotation : Rotate(IndexOf(robots, last.robot), where_to)

NextPairs == FirstWalk \/ WalkBack \/ FirstRotate \/ SecondRotate

SpecPairs == InitPairs /\ [][NextPairs]_vars

(***************************************************************************)
(* Spec: the game.  The start state of get_start_state, then cards applied *)
(* to robots (at most MaxOps of them), registers of tile effects and the   *)
(* passage from one register to the next.                                  *)
(***************************************************************************)
\* get_starting_coordinates: the cells holding a starting square.  The list
\* of the code has them in the order of the board dictionary, which may be any.
get_starting_coordinates(b) ==
    {c \in DOMAIN b : \E k \in 1..Len(b[c]) : b[c][k].type = "starting_square"}

\* get_start_state / get_robots_to_start: one robot facing N on every starting square.
InitStart(b) ==
    /\ board = b
    /\ \E p \in Placements(get_starting_coordinates(b), Cardinality(get_starting_coordinates(b))) :
          robots = [j \in DOMAIN p |-> Robot(N, j, p[j])]
    /\ game_round = 1
    /\ pc = "idle"
    /\ express = TRUE
    /\ robots_to_move = <<>>
    /\ belt_tiles = <<>>
    /\ ops = 0
    /\ last = NoCall
    /\ entry = [call |-> robots, pass |-> robots]

Init == InitStart(WallBoard) \/ InitStart(BeltBoard)

\* Robot.apply_card_effect with a MovementCard: the robot walks.
CardWalk ==
    /\ ops < MaxOps
    /\ \E i \in 1..Len(robots) : \E distance \in Distances : Walk(i, distance, None)

\* Robot.apply_card_effect with a RotationCard: the robot rotates.
CardRotate ==
    /\ ops < MaxOps
    /\ \E i \in 1..Len(robots) : \E where_to \in Rotation : Rotate(i, where_to)

Next == CardWalk \/ CardRotate \/ TileEffects \/ NextRegister

Spec == Init /\ [][Next]_vars

(***************************************************************************)
(* Vocabulary of the properties.                                           *)
(***************************************************************************)
\* The robot of a sequence with the given name (names are never reused).
ByName(rs, name) == rs[CHOOSE j \in 1..Len(rs) : rs[j].name = name]

HasName(rs, name) == \E j \in 1..Len(rs) : rs[j].name = name

\* The tile stack of a cell holds a Hole (cells off the board hold the
\* implicit Hole of get_tiles).
HasHole(coordinates) ==
    \E k \in 1..Len(get_tiles(coordinates)) : get_tiles(coordinates)[k].type = "hole"

\* A Wall on the boundary crossed when leaving a cell in a direction: a Wall of
\* the cell facing the direction, or a Wall of the neighbour facing the opposite.
WallFacing(coordinates, direction) ==
    \E k \in 1..Len(get_tiles(coordinates)) :
        /\ get_tiles(coordinates)[k].type = "wall"
        /\ get_tiles(coordinates)[k].direction = direction

Opposite(direction) ==
    CASE direction = N -> S [] direction = S -> N [] direction = E -> W [] direction = W -> E

WallBetween(coordinates, direction) ==
    \/ WallFacing(coordinates, direction)
    \/ WallFacing(get_next_coordinates(coordinates, direction), Opposite(direction))

\* The cell k cells ahead of a cell in a direction.
Ahead(coordinates, direction, k) ==
    <<coordinates[1] + k * coor_delta(direction)[1], coordinates[2] + k * coor_delta(direction)[2]>>

\* Robots of a sequence standing on a cell.
RobotsAt(rs, coordinates) == {j \in 1..Len(rs) : rs[j].coordinates = coordinates}

\* Number of consecutive occupied cells ahead of a cell in a direction.
RECURSIVE ChainLength(_, _, _)
ChainLength(rs, coordinates, direction) ==
    IF RobotsAt(rs, get_next_coordinates(coordinates, direction)) # {}
    THEN 1 + ChainLength(rs, get_next_coordinates(coordinates, direction), direction)
    ELSE 0

\* The direction of travel of the last call of walk: the argument, or the
\* robot's own direction, turned round for a negative distance.
TravelDirection ==
    IF last.distance < 0
    THEN get_new_direction(ByName(last.before, last.robot).direction, U_TURN)
    ELSE IF last.direction = None THEN ByName(last.before, last.robot).direction
         ELSE last.direction

StepsOnto ==
    {k \in 1..Len(last.steps) : last.steps[k].kind = "step"}

\* A step of the last call that put a robot, active until then, on a Hole.
FatalSteps ==
    {k \in StepsOnto : last.steps[k].from # Inactive /\ HasHole(last.steps[k].to)}

(***************************************************************************)
(* C2: whenever a call of walk or move takes an active robot onto a cell   *)
(* with a Hole, the robot is at (-1,-1) when the call returns and has      *)
(* exactly one life less than before the call.                             *)
(***************************************************************************)
C2_HoleCostsOneLife ==
    last.op \in {"walk", "move"} =>
        \A k \in FatalSteps :
            /\ ByName(robots, last.steps[k].robot).coordinates = Inactive
            /\ ByName(robots, last.steps[k].robot).lives =
                  ByName(last.before, last.steps[k].robot).lives - 1

(***************************************************************************)
(* C3: a robot walking one step into an occupied cell pushes the chain of  *)
(* robots ahead of it.                                                     *)
(***************************************************************************)
\* The last call is a walk (distance >= 1) of an active robot with a chain of
\* robots, one per cell, directly ahead of it in the direction of travel.
Walker == ByName(last.before, last.robot)

ChainAhead == ChainLength(last.before, Walker.coordinates, TravelDirection)

PushCase ==
    /\ last.op = "walk"
    /\ last.distance >= 1
    /\ ~inactive(Walker)
    /\ ChainAhead >= 1
    /\ \A k \in 1..ChainAhead :
          Cardinality(RobotsAt(last.before, Ahead(Walker.coordinates, TravelDirection, k))) = 1

\* The walker (k = 0) and the first m robots of the chain have no wall ahead.
WallFree(m) ==
    \A k \in 0..m : check_wall(Ahead(Walker.coordinates, TravelDirection, k), TravelDirection)

\* Every robot that stood k cells ahead of the walker now stands k + 1 cells ahead.
ChainShifted(from_k, to_k) ==
    \A k \in from_k..to_k :
        \A j \in RobotsAt(last.before, Ahead(Walker.coordinates, TravelDirection, k)) :
            ByName(robots, last.before[j].name).coordinates =
                Ahead(Walker.coordinates, TravelDirection, k + 1)

NobodyMoved ==
    \A j \in 1..Len(last.before) :
        ByName(robots, last.before[j].name).coordinates = last.before[j].coordinates

\* The last robot of the chain is blocked by a wall: nobody changes coordinates,
\* whatever the distance of the walk.
BlockedChainStays ==
    (PushCase /\ WallFree(ChainAhead - 1)
       /\ ~check_wall(Ahead(Walker.coordinates, TravelDirection, ChainAhead), TravelDirection))
    => NobodyMoved

\* C3 as claimed: with a wall-free path for every robot of the chain, each of
\* them ends exactly one cell further and the walker on the first one's cell;
\* with the last robot blocked by a wall, nobody moves.
C3_PushShiftsChain ==
    /\ (PushCase /\ last.distance = 1 /\ WallFree(ChainAhead)) =>
          /\ ChainShifted(1, ChainAhead)
          /\ ByName(robots, last.robot).coordinates = Ahead(Walker.coordinates, TravelDirection, 1)
    /\ BlockedChainStays

\* C3 as amended: the last robot of the chain ends one cell further unless
\* that cell holds a Hole (or lies off the board), in which case it is
\* inactive with one life less; the others and the walker as claimed.
C3_PushShiftsChainOrKills ==
    /\ (PushCase /\ last.distance = 1 /\ WallFree(ChainAhead)) =>
          /\ ChainShifted(1, ChainAhead - 1)
          /\ IF HasHole(Ahead(Walker.coordinates, TravelDirection, ChainAhead + 1))
             THEN \A j \in RobotsAt(last.before,
                                    Ahead(Walker.coordinates, TravelDirection, ChainAhead)) :
                     /\ inactive(ByName(robots, last.before[j].name))
                     /\ ByName(robots, last.before[j].name).lives = last.before[j].lives - 1
             ELSE ChainShifted(ChainAhead, ChainAhead)
          /\ ByName(robots, last.robot).coordinates = Ahead(Walker.coordinates, TravelDirection, 1)
    /\ BlockedChainStays

\* A walk of one step pushed a chain of two robots, the last of them into a Hole.
C3_Witness ==
    /\ PushCase /\ last.distance = 1 /\ WallFree(ChainAhead)
    /\ ChainAhead = 2
    /\ HasHole(Ahead(Walker.coordinates, TravelDirection, 3))
    /\ ByName(robots, last.robot).coordinates = Ahead(Walker.coordinates, TravelDirection, 1)

\* A walk of two steps against a chain whose last robot stands before a wall.
C3_WitnessBlocked ==
    /\ PushCase /\ last.distance = 2 /\ ChainAhead = 2 /\ WallFree(1)
    /\ ~check_wall(Ahead(Walker.coordinates, TravelDirection, 2), TravelDirection)

(***************************************************************************)
(* C4: Robot.move changes no robot but the one moved, and never puts the   *)
(* moved robot on a cell another robot stands on.                          *)
(***************************************************************************)
Moved == ByName(last.before, last.robot)

\* C4: after a call of Robot.move every other robot is as it was before, and
\* the moved robot was put on no cell another robot stands on.
C4_MoveLeavesOthersAlone ==
    last.op = "move" =>
        /\ \A j \in 1..Len(last.before) :
              last.before[j].name # last.robot =>
                  ByName(robots, last.before[j].name) = last.before[j]
        /\ Len(robots) = Len(last.before)
        \* no step onto a cell where another robot stands
        /\ \A k \in StepsOnto : RobotsAt(last.before, last.steps[k].to) = {}
        \* the cell ahead is occupied: the moved robot keeps its coordinates
        /\ RobotsAt(last.before, get_next_coordinates(Moved.coordinates, last.direction)) # {}
              => ByName(robots, last.robot).coordinates = Moved.coordinates

\* A move of an active robot towards a cell without a wall before it,
\* on which another robot stands.
C4_Witness ==
    /\ last.op = "move"
    /\ ~inactive(Moved)
    /\ check_wall(Moved.coordinates, last.direction)
    /\ RobotsAt(last.before, get_next_coordinates(Moved.coordinates, last.direction)) # {}
    /\ robots = last.before

(***************************************************************************)
(* C5: no step of walk or move crosses a wall; check_wall is FALSE exactly *)
(* for a Wall of the cell facing the direction or a Wall of the neighbour  *)
(* facing the opposite direction; a robot before a wall stays, and the     *)
(* remaining steps of its call are not taken.                              *)
(***************************************************************************)
WallSteps == {k \in 1..Len(last.steps) : last.steps[k].kind = "wall"}

\* C5: check_wall is FALSE exactly when a wall stands between a cell and its
\* neighbour, no step crosses such a wall, and a robot stopped by a wall stays
\* where it is for the rest of its call.
C5_WallsBlock ==
    /\ \A c \in DOMAIN board \cup {Inactive} : \A d \in Direction :
          check_wall(c, d) = ~WallBetween(c, d)
    /\ last.op \in {"walk", "move"} =>
          \* no logged step crosses a wall
          /\ \A k \in StepsOnto : ~WallBetween(last.steps[k].from, last.steps[k].direction)
          \* no robot ends on a neighbour cell behind a wall
          /\ \A j \in 1..Len(last.before) : \A d \in Direction :
                (/\ ~inactive(last.before[j])
                 /\ ByName(robots, last.before[j].name).coordinates =
                        get_next_coordinates(last.before[j].coordinates, d))
                => ~WallBetween(last.before[j].coordinates, d)
          \* a robot stopped by a wall is still on the cell before the wall
          /\ \A k \in WallSteps :
                /\ WallBetween(last.steps[k].from, last.steps[k].direction)
                /\ ByName(robots, last.steps[k].robot).coordinates = last.steps[k].from
                /\ last.steps[k].depth = 0 => k = Len(last.steps)

\* A walk of two steps whose second step is stopped by a wall.
C5_Witness ==
    /\ last.op = "walk"
    /\ last.distance = 2
    /\ Len(last.steps) = 2
    /\ last.steps[1].kind = "step"
    /\ last.steps[2].kind = "wall"
    /\ ByName(robots, last.robot).coordinates = last.steps[2].from

(***************************************************************************)
(* C1: no two active robots of state.robots have the same coordinates.     *)
(***************************************************************************)
C1_OneRobotPerCell ==
    \A j, k \in 1..Len(robots) :
        (j # k /\ ~inactive(robots[j]) /\ ~inactive(robots[k]))
        => robots[j].coordinates # robots[k].coordinates

(***************************************************************************)
(* Vocabulary of the belt properties.                                      *)
(***************************************************************************)
\* The robot stands on a belt of the kind a pass moves.
OnBelt(robot, is_express) == belt_layers(robot.coordinates, is_express) # <<>>

\* The cell the belt under the robot carries it to.
BeltDirection(robot, is_express) ==
    LET tile == get_tiles(robot.coordinates)[belt_layers(robot.coordinates, is_express)[1]]
    IN get_new_direction(tile.direction, belt_rotation(tile))

BeltDestination(robot, is_express) ==
    get_next_coordinates(robot.coordinates, BeltDirection(robot, is_express))

Names(rs) == {rs[j].name : j \in 1..Len(rs)}

\* The scan of the robots to move that the while loop of move_belts is about
\* to make.
NextScan ==
    belt_while_body([robots |-> robots, steps |-> <<>>,
                     robots_to_move |-> robots_to_move, belt_tiles |-> belt_tiles])

\* The call of apply_tile_effects has returned.
RegisterDone == last.op \in {"apply_tile_effects_done", "set_robots_for_new_turn"}

\* A pass of move_belts has ended: its while loop has left no robot to move.
PassDone == pc = "belts" /\ robots_to_move = <<>>

(***************************************************************************)
(* C6: every iteration of the while loop of a belt pass removes at least   *)
(* one robot from the robots to move (or the loop has ended).              *)
(***************************************************************************)
C6_BeltLoopShrinks ==
    (pc = "belts" /\ robots_to_move # <<>>)
    => Len(NextScan.robots_to_move) < Len(robots_to_move)

(***************************************************************************)
(* C7: in a belt pass, a robot A bound for the cell of a belt robot B      *)
(* whose own move succeeds follows B onto B's former cell.                 *)
(***************************************************************************)
\* At the beginning of the pass A and B stand on belts of the pass and the
\* belt of A carries to the cell of B.
Follows(a, b) ==
    /\ a # b
    /\ OnBelt(ByName(entry.pass, a), express)
    /\ OnBelt(ByName(entry.pass, b), express)
    /\ BeltDestination(ByName(entry.pass, a), express) = ByName(entry.pass, b).coordinates

\* The move of B by its belt has succeeded.
Carried(b) ==
    /\ HasName(robots, b)
    /\ ByName(robots, b).coordinates = BeltDestination(ByName(entry.pass, b), express)

\* No third robot of the pass is bound for the cell of B, or stands on it.
NoRival(a, b) ==
    \A c \in Names(entry.pass) \ {a, b} :
        /\ ByName(entry.pass, c).coordinates # ByName(entry.pass, b).coordinates
        /\ OnBelt(ByName(entry.pass, c), express) =>
              BeltDestination(ByName(entry.pass, c), express) # ByName(entry.pass, b).coordinates

\* C7 as claimed: during a belt pass begun with A bound for the cell of B the
\* two never share a cell, and when the pass has ended with B carried one cell
\* on, A stands on the cell B has left.
C7_FollowerAdvances ==
    pc = "belts" =>
        \A a, b \in Names(entry.pass) :
            Follows(a, b) =>
                /\ ~inactive(ByName(robots, a)) =>
                      ByName(robots, a).coordinates # ByName(robots, b).coordinates
                /\ (PassDone /\ Carried(b)) =>
                      ByName(robots, a).coordinates = ByName(entry.pass, b).coordinates

\* C7 as amended: provided no wall stands between A and B and no third robot
\* is bound for the cell of B.
C7_FollowerAdvancesUnrivalled ==
    pc = "belts" =>
        \A a, b \in Names(entry.pass) :
            Follows(a, b) =>
                /\ ~inactive(ByName(robots, a)) =>
                      ByName(robots, a).coordinates # ByName(robots, b).coordinates
                /\ (/\ PassDone /\ Carried(b)
                    /\ NoRival(a, b)
                    /\ ~WallBetween(ByName(entry.pass, a).coordinates,
                                    BeltDirection(ByName(entry.pass, a), express)))
                   => ByName(robots, a).coordinates = ByName(entry.pass, b).coordinates

\* A pass has ended in which A, listed before B, has followed B.
C7_Witness ==
    /\ PassDone
    /\ \E a, b \in Names(entry.pass) :
          /\ Follows(a, b) /\ Carried(b) /\ NoRival(a, b)
          /\ a < b
          /\ ByName(robots, a).coordinates = ByName(entry.pass, b).coordinates

(***************************************************************************)
(* C8: two robots on belts each bound for the cell of the other: the       *)
(* register of tile effects completes with both on their cells.            *)
(***************************************************************************)
MutualBlock(rs, a, b) ==
    /\ a # b
    /\ OnBelt(ByName(rs, a), FALSE)
    /\ OnBelt(ByName(rs, b), FALSE)
    /\ BeltDestination(ByName(rs, a), FALSE) = ByName(rs, b).coordinates
    /\ BeltDestination(ByName(rs, b), FALSE) = ByName(rs, a).coordinates

\* C8: from two robots each bound for the cell of the other, the register
\* leaves every loop of the belt pass and ends with both on their cells.
C8_MutualBlockCompletes ==
    \A a, b \in Names(entry.call) :
        MutualBlock(entry.call, a, b) =>
            \* the call does not stay in the loop of a belt pass for ever
            /\ (pc = "belts" /\ robots_to_move # <<>>) => NextScan.robots_to_move # robots_to_move
            \* and when it has returned both robots are where they were
            /\ RegisterDone =>
                  /\ ByName(robots, a).coordinates = ByName(entry.call, a).coordinates
                  /\ ByName(robots, b).coordinates = ByName(entry.call, b).coordinates

(***************************************************************************)
(* C9: two robots on belts facing each other across an empty cell both     *)
(* belts carry to: after the register neither has moved.                   *)
(***************************************************************************)
Crossroad(rs, a, b) ==
    /\ a # b
    /\ OnBelt(ByName(rs, a), FALSE)
    /\ OnBelt(ByName(rs, b), FALSE)
    /\ BeltDestination(ByName(rs, a), FALSE) = BeltDestination(ByName(rs, b), FALSE)
    /\ BeltDirection(ByName(rs, a), FALSE) = Opposite(BeltDirection(ByName(rs, b), FALSE))
    /\ RobotsAt(rs, BeltDestination(ByName(rs, a), FALSE)) = {}
    /\ check_wall(ByName(rs, a).coordinates, BeltDirection(ByName(rs, a), FALSE))
    /\ check_wall(ByName(rs, b).coordinates, BeltDirection(ByName(rs, b), FALSE))

\* C9: after a register begun with two robots facing each other across an
\* empty cell of a crossroad, both stand where they stood.
C9_CrossroadNobodyMoves ==
    RegisterDone =>
        \A a, b \in Names(entry.call) :
            Crossroad(entry.call, a, b) =>
                /\ HasName(robots, a) /\ HasName(robots, b)
                /\ ByName(robots, a).coordinates = ByName(entry.call, a).coordinates
                /\ ByName(robots, b).coordinates = ByName(entry.call, b).coordinates

(***************************************************************************)
(* C10: the result of move_belts does not depend on the order of the       *)
(* robots in state.robots.                                                 *)
(***************************************************************************)
Orders(n) == {p \in [1..n -> 1..n] : \A j, k \in 1..n : j # k => p[j] # p[k]}

Reordered(rs, p) == [j \in 1..Len(rs) |-> rs[p[j]]]

SameBeltResult(one, other) ==
    /\ one.looping = other.looping
    /\ ~one.looping =>
          \A j \in 1..Len(one.robots) :
              /\ ByName(other.robots, one.robots[j].name).coordinates = one.robots[j].coordinates
              /\ ByName(other.robots, one.robots[j].name).direction = one.robots[j].direction

\* C10: move_belts gives every robot the same coordinates and direction (and
\* ends or not alike) for every order of the robots in state.robots.
C10_BeltsIgnoreOrder ==
    pc = "idle" =>
        \A p \in Orders(Len(robots)) :
            SameBeltResult(move_belts(robots), move_belts(Reordered(robots, p)))

(***************************************************************************)
(* Vocabulary of the tile-effect stages.                                   *)
(***************************************************************************)
HasTile(coordinates, type) ==
    \E k \in 1..Len(get_tiles(coordinates)) : get_tiles(coordinates)[k].type = type

\* The first tile of a type in the stack of a cell.
TheTile(coordinates, type) ==
    get_tiles(coordinates)[CHOOSE k \in 1..Len(get_tiles(coordinates)) :
        /\ get_tiles(coordinates)[k].type = type
        /\ \A m \in 1..(k - 1) : get_tiles(coordinates)[m].type # type]

\* The stage named op has just been applied to the robots last.before.
StageDone(op) == last.op = op

\* The robot stood, active, on a pusher of the current register with a free
\* cell behind no wall in the direction of the push.
PushDirection(robot) == Opposite(TheTile(robot.coordinates, "pusher").direction)

Pushable(robot) ==
    /\ ~inactive(robot)
    /\ HasTile(robot.coordinates, "pusher")
    /\ game_round % 2 = TheTile(robot.coordinates, "pusher").register
    /\ ~WallBetween(robot.coordinates, PushDirection(robot))
    /\ RobotsAt(last.before, get_next_coordinates(robot.coordinates, PushDirection(robot))) = {}

\* The robot put on a cell: dead when the cell holds a Hole.
Landed(robot, coordinates) ==
    IF HasHole(coordinates)
    THEN [robot EXCEPT !.coordinates = Inactive, !.lives = robot.lives - 1]
    ELSE [robot EXCEPT !.coordinates = coordinates]

\* The robot stood, active, under the start of a laser, or under a laser next
\* to its start with no robot on the start.
UnderFire(robot) ==
    /\ ~inactive(robot)
    /\ HasTile(robot.coordinates, "laser")
    /\ LET tile == TheTile(robot.coordinates, "laser")
           back == get_next_coordinates(robot.coordinates, Opposite(tile.direction))
       IN \/ tile.laser_start
          \/ /\ RobotsAt(last.before, back) = {}
             /\ HasTile(back, "laser")
             /\ TheTile(back, "laser").laser_start
             /\ TheTile(back, "laser").direction = tile.direction

Shot(robot) ==
    LET strength == TheTile(robot.coordinates, "laser").laser_strength
    IN IF robot.damages + strength < FatalDamages
       THEN [robot EXCEPT !.damages = robot.damages + strength]
       ELSE [robot EXCEPT !.coordinates = Inactive, !.lives = robot.lives - 1]

\* The pc a stage leaves and the stage that leads to a pc.
StageBefore(p) ==
    CASE p = "gear" -> "pusher" [] p = "laser" -> "gear" [] p = "flag" -> "laser"
      [] p = "new_turn" -> "flag" [] OTHER -> "none"

(***************************************************************************)
(* C11: apply_tile_effects applies belts (both passes), pushers, gears,    *)
(* lasers, flags and repairs in this order, the sweep at register 5 only;  *)
(* every stage acts on the robots as the stage before has left them, and   *)
(* leaves an inactive robot as it is.                                      *)
(***************************************************************************)
C11_StagesInOrder ==
    \* the order of the stages
    /\ pc \in {"gear", "laser", "flag", "new_turn"} => last.op = StageBefore(pc)
    /\ pc = "pusher" => (last.op = "belt_pass" /\ ~express)
    /\ last.op = "set_robots_for_new_turn" => (pc = "idle" /\ game_round = 5)
    /\ last.op = "apply_tile_effects_done" => (pc = "idle" /\ game_round # 5)
    \* each stage on the robots the stage before has left
    /\ last.op \in {"pusher", "gear", "laser", "flag"} =>
          \A j \in 1..Len(last.before) :
              LET was == last.before[j]
                  now == ByName(robots, was.name)
                  at == was.coordinates
              IN /\ Len(robots) = Len(last.before)
                 /\ inactive(was) => now = was
                 /\ last.op = "pusher" =>
                       now = IF Pushable(was)
                             THEN Landed(was, get_next_coordinates(at, PushDirection(was)))
                             ELSE was
                 /\ last.op = "gear" =>
                       now = IF ~inactive(was) /\ HasTile(at, "gear")
                             THEN [was EXCEPT !.direction =
                                      get_new_direction(was.direction, TheTile(at, "gear").move_direction)]
                             ELSE was
                 /\ last.op = "laser" =>
                       /\ UnderFire(was) => now = Shot(was)
                       /\ ~HasTile(at, "laser") => now = was
                 /\ last.op = "flag" =>
                       /\ (~inactive(was) /\ HasTile(at, "flag")) =>
                             /\ now.start_coordinates = at
                             /\ now.flags = IF was.flags + 1 = TheTile(at, "flag").flag_number
                                            THEN was.flags + 1 ELSE was.flags
                       /\ (~inactive(was) /\ HasTile(at, "repair")) =>
                             now.damages = IF game_round = 5 /\ was.damages > 0
                                           THEN was.damages - 1 ELSE was.damages
                       /\ (~HasTile(at, "flag") /\ ~HasTile(at, "repair")) => now = was
                       /\ now.coordinates = was.coordinates /\ now.lives = was.lives

\* A call has returned in which a belt carried a robot onto the pusher, the
\* pusher pushed it onto the gear and the gear turned it.
C11_Witness ==
    /\ RegisterDone
    /\ \E j \in 1..Len(entry.call) :
          /\ OnBelt(entry.call[j], FALSE)
          /\ HasTile(BeltDestination(entry.call[j], FALSE), "pusher")
          /\ HasName(robots, entry.call[j].name)
          /\ HasTile(ByName(robots, entry.call[j].name).coordinates, "gear")
          /\ ByName(robots, entry.call[j].name).direction =
                get_new_direction(entry.call[j].direction, LEFT)

(***************************************************************************)
(* C12: belts are resolved in two passes, over the express belts and then  *)
(* over all belts; a pass carries a robot at most one cell.                *)
(***************************************************************************)
Abs(x) == IF x < 0 THEN -x ELSE x

\* Number of cells between two cells, along the axes.
Cells(c, d) == Abs(c[1] - d[1]) + Abs(c[2] - d[2])

OnExpressBelt(robot) ==
    /\ HasTile(robot.coordinates, "belt")
    /\ TheTile(robot.coordinates, "belt").express

OnNormalBelt(robot) ==
    /\ HasTile(robot.coordinates, "belt")
    /\ ~TheTile(robot.coordinates, "belt").express

\* The cell the belt under a robot carries to.
CarriedTo(robot) ==
    LET tile == TheTile(robot.coordinates, "belt")
    IN get_next_coordinates(robot.coordinates, (tile.direction + tile.direction_out) % 360)

\* Nothing of the robots rs keeps the belt from carrying the robot: no wall,
\* no robot on the cell it carries to, no other robot on a belt carrying there.
Unblocked(rs, robot) ==
    /\ ~WallBetween(robot.coordinates, (TheTile(robot.coordinates, "belt").direction
                                         + TheTile(robot.coordinates, "belt").direction_out) % 360)
    /\ RobotsAt(rs, CarriedTo(robot)) = {}
    /\ \A j \in 1..Len(rs) :
          (rs[j].name # robot.name /\ HasTile(rs[j].coordinates, "belt"))
          => CarriedTo(rs[j]) # CarriedTo(robot)

\* C12: in the first pass only robots on express belts are to be moved, in the
\* second only robots on belts; a pass puts a robot on the cell its belt
\* carries to, kills it there, or leaves it; after both passes an unblocked
\* robot of a normal belt is one cell on and no robot more than two.
C12_TwoBeltPasses ==
    /\ pc = "belts" =>
          /\ \A k \in 1..Len(robots_to_move) :
                IF express THEN OnExpressBelt(ByName(entry.pass, robots_to_move[k]))
                ELSE HasTile(ByName(entry.pass, robots_to_move[k]).coordinates, "belt")
          /\ express => entry.pass = entry.call
          /\ \A j \in 1..Len(entry.pass) :
                LET was == entry.pass[j]
                    now == ByName(robots, was.name)
                    on_belt == IF express THEN OnExpressBelt(was) ELSE HasTile(was.coordinates, "belt")
                IN IF on_belt
                   THEN now.coordinates \in {was.coordinates, Landed(was, CarriedTo(was)).coordinates}
                   ELSE now.coordinates = was.coordinates
    /\ pc = "pusher" =>
          /\ ~express /\ last.op = "belt_pass"
          /\ \A j \in 1..Len(entry.call) :
                LET was == entry.call[j]
                    now == ByName(robots, was.name)
                IN /\ ~HasTile(was.coordinates, "belt") => now.coordinates = was.coordinates
                   /\ OnNormalBelt(was) =>
                         /\ now.coordinates \in {was.coordinates, Landed(was, CarriedTo(was)).coordinates}
                         /\ Unblocked(entry.pass, was) =>
                               now.coordinates = Landed(was, CarriedTo(was)).coordinates
                   /\ (OnExpressBelt(was) /\ ~inactive(now)) =>
                         Cells(was.coordinates, now.coordinates) <= 2

\* Both passes are over: a robot of an express belt is two cells on, a robot of
\* a normal belt one cell.
C12_Witness ==
    /\ pc = "pusher"
    /\ \E j, k \in 1..Len(entry.call) :
          /\ OnExpressBelt(entry.call[j])
          /\ Cells(entry.call[j].coordinates, ByName(robots, entry.call[j].name).coordinates) = 2
          /\ OnNormalBelt(entry.call[k])
          /\ Unblocked(entry.pass, entry.call[k])
          /\ ByName(robots, entry.call[k].name).coordinates = CarriedTo(entry.call[k])

(***************************************************************************)
(* C13: after set_robots_for_new_turn no robot of state.robots has         *)
(* lives <= 0, and every remaining robot that was inactive stands on its   *)
(* start_coordinates with no damages, facing N.                            *)
(***************************************************************************)
C13_SweepRespawns ==
    last.op = "set_robots_for_new_turn" =>
        /\ \A j \in 1..Len(robots) : robots[j].lives > 0
        /\ \A j \in 1..Len(last.before) :
              LET was == last.before[j]
              IN IF was.lives > 0
                 THEN /\ HasName(robots, was.name)
                      /\ inactive(was) =>
                            /\ ByName(robots, was.name).coordinates = was.start_coordinates
                            /\ ByName(robots, was.name).damages = 0
                            /\ ByName(robots, was.name).direction = N
                 ELSE ~HasName(robots, was.name)

\* A sweep has dropped a robot without lives and put back an inactive, damaged
\* robot that had lives left.
C13_Witness ==
    /\ last.op = "set_robots_for_new_turn"
    /\ \E j, k \in 1..Len(last.before) :
          /\ last.before[j].lives <= 0
          /\ ~HasName(robots, last.before[j].name)
          /\ last.before[k].lives > 0
          /\ inactive(last.before[k])
          /\ last.before[k].damages > 0
          /\ ByName(robots, last.before[k].name).coordinates = last.before[k].start_coordinates

(***************************************************************************)
(* C14: an inactive robot stays at (-1,-1) through every call and every    *)
(* stage; only the sweep, run at register 5 only, puts it back or drops    *)
(* it.                                                                     *)
(***************************************************************************)
\* The step is the sweep of a call of apply_tile_effects at register 5.
SweepStep == pc = "new_turn" /\ game_round = 5

C14_InactiveUntilSweep ==
    [][\A j \in 1..Len(robots) :
          /\ inactive(robots[j]) =>
                IF HasName(robots', robots[j].name)
                THEN inactive(ByName(robots', robots[j].name)) \/ SweepStep
                ELSE SweepStep
          /\ ~SweepStep => HasName(robots', robots[j].name)]_vars

\* An inactive robot has been made to walk and is inactive still.
C14_Witness ==
    /\ last.op = "walk"
    /\ inactive(ByName(last.before, last.robot))
    /\ inactive(ByName(robots, last.robot))
    /\ game_round < 5

(***************************************************************************)
(* C15: state.robots never gains a robot; a robot leaves it only in a      *)
(* sweep and only with no life left, and never comes back.                 *)
(***************************************************************************)
C15_RemovedIsTerminal ==
    [][/\ Names(robots') \subseteq Names(robots)
       /\ Len(robots') = Cardinality(Names(robots'))
       /\ \A j \in 1..Len(robots) :
             ~HasName(robots', robots[j].name) =>
                 /\ SweepStep
                 /\ robots[j].lives <= 0]_vars

\* A register has been completed after the sweep that dropped a robot.
C15_Witness ==
    /\ last.op = "apply_tile_effects_done"
    /\ Len(robots) < Cardinality(get_starting_coordinates(board))

(***************************************************************************)
(* C16: the lives of every robot of state.robots stay within 0..3; a step  *)
(* of the game takes exactly one life from a robot it makes inactive and   *)
(* leaves the lives of every other robot alone, those of a robot that was  *)
(* inactive already included.                                              *)
(***************************************************************************)
C16_OneLifePerDeath ==
    [][\A j \in 1..Len(robots) :
          HasName(robots', robots[j].name) =>
              LET after == ByName(robots', robots[j].name)
              IN /\ after.lives \in 0..InitLives
                 /\ after.lives =
                       IF ~inactive(robots[j]) /\ inactive(after)
                       THEN robots[j].lives - 1
                       ELSE robots[j].lives]_vars

\* The cells within two steps of the board that are not cells of the board.
Surroundings ==
    {c \in (-2..5) \X (-2..5) : c \notin DOMAIN board}

\* The steps of the last call that took a robot off the board.
StepsOffBoard == {k \in StepsOnto : last.steps[k].to \notin DOMAIN board}

(***************************************************************************)
(* C17: get_tiles returns a single Hole for every coordinate off the       *)
(* board; after every completed call every robot is at (-1,-1) or on a     *)
(* cell of the board, and a robot whose step left the board is at (-1,-1). *)
(***************************************************************************)
C17_OffBoardIsFatal ==
    /\ \A c \in Surroundings : get_tiles(c) = <<HoleTile>>
    /\ \A j \in 1..Len(robots) :
          inactive(robots[j]) \/ robots[j].coordinates \in DOMAIN board
    /\ last.op \in {"walk", "move"} =>
          \A k \in StepsOffBoard : inactive(ByName(robots, last.steps[k].robot))

\* A walk has taken a robot from a cell of the board to a cell off the board.
C17_Witness ==
    /\ last.op = "walk"
    /\ \E k \in StepsOffBoard :
          /\ last.steps[k].from \in DOMAIN board
          /\ inactive(ByName(robots, last.steps[k].robot))

\* The robot of the last call as it was before the first call, before the
\* last call and as it is now.
Original == ByName(entry.call, last.robot)

Before == ByName(last.before, last.robot)

After == ByName(robots, last.robot)

\* The cells of a walk of a number of steps from the original cell, in the
\* original direction.
Path(steps) == {Ahead(Original.coordinates, Original.direction, k) : k \in 1..steps}

\* The walk forwards and the walk backwards have been made, on a path of
\* cells of the board without walls, holes or robots.
OpenRoundTrip ==
    /\ ops = 2
    /\ last.op = "walk"
    /\ last.distance < 0
    /\ \A c \in Path(-last.distance) :
          /\ c \in DOMAIN board
          /\ ~HasHole(c)
          /\ RobotsAt(entry.call, c) = {}
    /\ \A k \in 0..(-last.distance - 1) :
          ~WallBetween(Ahead(Original.coordinates, Original.direction, k),
                       Original.direction)

(***************************************************************************)
(* C18: on a path without walls, holes or other robots that stays on the   *)
(* board, walk(D) followed by walk(-D) leaves the robot on its original    *)
(* cell with its original direction.                                       *)
(***************************************************************************)
C18_WalkThereAndBack ==
    OpenRoundTrip =>
        /\ After.coordinates = Original.coordinates
        /\ After.direction = Original.direction

\* A robot facing E, with another robot on the board, has walked two cells
\* and back.
C18_Witness ==
    /\ OpenRoundTrip
    /\ last.distance <= -2
    /\ Original.direction = E
    /\ Len(robots) >= 2
    /\ After.coordinates = Original.coordinates
    /\ Before.coordinates = Ahead(Original.coordinates, E, -last.distance)

(***************************************************************************)
(* C19: two rotations whose degrees sum to 0 modulo 360, applied one after *)
(* the other to a direction, give the direction back.                      *)
(***************************************************************************)
C19_RotationsCancel ==
    (ops = 2 /\ last.op = "rotate") =>
        \A r1 \in Rotation :
            (/\ Before.direction = get_new_direction(Original.direction, r1)
             /\ (r1 + last.direction) % 360 = 0) =>
                After.direction = Original.direction

\* A robot facing S has been turned LEFT, to E, and then RIGHT.
C19_Witness ==
    /\ ops = 2
    /\ last.op = "rotate"
    /\ last.direction = RIGHT
    /\ Original.direction = S
    /\ Before.direction = E
    /\ After.direction = S

\* The direction a rotation leads to from a direction, pair by pair.
Turned(direction, where_to) ==
    CASE where_to = LEFT ->
            (CASE direction = N -> W [] direction = E -> N
               [] direction = S -> E [] direction = W -> S)
      [] where_to = RIGHT ->
            (CASE direction = N -> E [] direction = E -> S
               [] direction = S -> W [] direction = W -> N)
      [] where_to = U_TURN ->
            (CASE direction = N -> S [] direction = E -> W
               [] direction = S -> N [] direction = W -> E)

(***************************************************************************)
(* C20: Robot.rotate(r) on a robot facing d gives it the direction of      *)
(* (d + r) mod 360, a Direction for each of the 12 pairs, and changes      *)
(* nothing else of the robot nor any other robot.                          *)
(***************************************************************************)
C20_RotateTurnsOnly ==
    last.op = "rotate" =>
        /\ After.direction \in Direction
        /\ After.direction = (Before.direction + last.direction) % 360
        /\ After = [Before EXCEPT !.direction = Turned(Before.direction, last.direction)]
        /\ \A j \in 1..Len(robots) :
              robots[j].name # last.robot => robots[j] = last.before[j]
        /\ Len(robots) = Len(last.before)

\* A robot facing S has been turned RIGHT and faces W.
C20_Witness ==
    /\ last.op = "rotate"
    /\ last.direction = RIGHT
    /\ Before.direction = S
    /\ After.direction = W
    /\ Before.coordinates = After.coordinates

\* The stage of flags and repairs is about to be applied to a robot that
\* stands, active, on a tile of a type.
Visits(robot, type) ==
    /\ pc = "flag"
    /\ ~inactive(robot)
    /\ HasTile(robot.coordinates, type)

(***************************************************************************)
(* C21: every visit of an active robot to a flag makes the flag's cell the *)
(* robot's start_coordinates and adds 1 to its flags exactly when the      *)
(* flag's number is flags + 1; nothing else changes a robot's flags.       *)
(***************************************************************************)
C21_FlagsInSequence ==
    [][\A j \in 1..Len(robots) :
          HasName(robots', robots[j].name) =>
              LET was == robots[j]
                  now == ByName(robots', robots[j].name)
              IN /\ Visits(was, "flag") =>
                       /\ now.start_coordinates = was.coordinates
                       /\ now.flags =
                             IF TheTile(was.coordinates, "flag").flag_number = was.flags + 1
                             THEN was.flags + 1
                             ELSE was.flags
                 /\ ~Visits(was, "flag") => now.flags = was.flags
                 /\ now.flags \in {was.flags, was.flags + 1}]_vars

\* A robot with one flag has visited flag 2, away from its start, and holds
\* two flags.
C21_Witness ==
    /\ last.op = "flag"
    /\ \E j \in 1..Len(robots) :
          /\ last.before[j].flags = 1
          /\ last.before[j].start_coordinates # last.before[j].coordinates
          /\ TheTile(robots[j].coordinates, "flag").flag_number = 2
          /\ robots[j].flags = 2
          /\ robots[j].start_coordinates = robots[j].coordinates

\* The start of the laser of a tile lies k cells behind a cell, against the
\* laser's direction.
StartBehind(coordinates, tile, k) ==
    LET c == Ahead(coordinates, Opposite(tile.direction), k)
    IN \E m \in 1..Len(get_tiles(c)) :
          /\ get_tiles(c)[m].type = "laser"
          /\ get_tiles(c)[m].laser_start
          /\ get_tiles(c)[m].direction = tile.direction

\* The cells of the beam from the start of the laser to the cell before the
\* robot's, the cell of the start included.
BeamPath(robot) ==
    LET tile == TheTile(robot.coordinates, "laser")
        reach == {k \in 1..Cardinality(DOMAIN board) : StartBehind(robot.coordinates, tile, k)}
        first == CHOOSE k \in reach : \A m \in reach : k <= m
    IN {Ahead(robot.coordinates, Opposite(tile.direction), k) : k \in 1..first}

\* A robot stood on the beam between the start of the laser and the robot
\* when the laser stage began.
Shielded(robot) == \E c \in BeamPath(robot) : RobotsAt(last.before, c) # {}

(***************************************************************************)
(* C22: in the laser stage a robot on the start of a laser is hit; a robot *)
(* on another tile of the laser is hit exactly when no robot stands on the *)
(* beam between the start and the robot, and is left as it was otherwise.  *)
(***************************************************************************)
C22_BeamStopsAtFirstRobot ==
    last.op = "laser" =>
        \A j \in 1..Len(last.before) :
            LET was == last.before[j]
                now == ByName(robots, was.name)
            IN (~inactive(was) /\ HasTile(was.coordinates, "laser")) =>
                  IF TheTile(was.coordinates, "laser").laser_start
                  THEN now = Shot(was)
                  ELSE IF Shielded(was) THEN now = was ELSE now = Shot(was)

OnActivePusher(robot) ==
    /\ ~inactive(robot)
    /\ HasTile(robot.coordinates, "pusher")
    /\ game_round % 2 = TheTile(robot.coordinates, "pusher").register

\* A robot other than the j-th stood on a cell when the j-th robot's turn came
\* in the stage just applied: the robots before it in state.robots had had
\* their turn, the robots behind it had not.
OccupiedAtTurn(j, coordinates) ==
    \E k \in 1..Len(last.before) :
        /\ k # j
        /\ coordinates = IF k < j THEN robots[k].coordinates
                         ELSE last.before[k].coordinates

(***************************************************************************)
(* C24: the pusher stage moves an active robot on a pusher one cell in the *)
(* direction of the push exactly when the register number modulo 2 is the  *)
(* pusher's parity, unless a wall or a robot on the next cell blocks the   *)
(* move; it changes no other robot.                                        *)
(***************************************************************************)
C24_PushersByParity ==
    last.op = "pusher" =>
        /\ Len(robots) = Len(last.before)
        /\ \A j \in 1..Len(last.before) :
              LET was == last.before[j]
                  now == robots[j]
              IN IF OnActivePusher(was)
                 THEN LET next == get_next_coordinates(was.coordinates, PushDirection(was))
                      IN now = IF \/ WallBetween(was.coordinates, PushDirection(was))
                                  \/ OccupiedAtTurn(j, next)
                               THEN was
                               ELSE Landed(was, next)
                 ELSE now = was

\* A robot has been pushed one cell while another robot, on a pusher of the
\* other parity, has stayed.
C24_Witness ==
    /\ last.op = "pusher"
    /\ \E j, k \in 1..Len(last.before) :
          /\ OnActivePusher(last.before[j])
          /\ robots[j].coordinates =
                get_next_coordinates(last.before[j].coordinates, PushDirection(last.before[j]))
          /\ ~inactive(last.before[k])
          /\ HasTile(last.before[k].coordinates, "pusher")
          /\ ~OnActivePusher(last.before[k])
          /\ robots[k] = last.before[k]

(***************************************************************************)
(* C25: for an active robot on a repair site, the stage of flags and       *)
(* repairs takes one damage off at register 5 when the robot has any and   *)
(* leaves the damages alone otherwise; it makes the site the robot's       *)
(* start_coordinates exactly when the site is a new start.                 *)
(***************************************************************************)
C25_RepairAtLastRegister ==
    last.op = "flag" =>
        \A j \in 1..Len(last.before) :
            LET was == last.before[j]
                now == ByName(robots, was.name)
                at == was.coordinates
            IN (~inactive(was) /\ HasTile(at, "repair")) =>
                  /\ now.damages = IF game_round = 5 /\ was.damages > 0
                                   THEN was.damages - 1
                                   ELSE was.damages
                  /\ now.damages >= 0
                  /\ TheTile(at, "repair").new_start => now.start_coordinates = at
                  /\ (~TheTile(at, "repair").new_start /\ ~HasTile(at, "flag")) =>
                        now.start_coordinates = was.start_coordinates

\* At register 5 a damaged robot on a repair site that is not a new start,
\* away from its start, has lost one damage and kept its start.
C25_Witness ==
    /\ last.op = "flag"
    /\ game_round = 5
    /\ \E j \in 1..Len(last.before) :
          /\ ~inactive(last.before[j])
          /\ HasTile(last.before[j].coordinates, "repair")
          /\ ~TheTile(last.before[j].coordinates, "repair").new_start
          /\ last.before[j].start_coordinates # last.before[j].coordinates
          /\ last.before[j].damages > 0
          /\ robots[j].damages = last.before[j].damages - 1
          /\ robots[j].start_coordinates = last.before[j].start_coordinates

(***************************************************************************)
(* C26: at every register the gear stage turns each active robot on a gear *)
(* by 90 degrees to the side of the gear and changes nothing else: no      *)
(* other field of the robot, no robot off a gear, no inactive robot.       *)
(***************************************************************************)
C26_GearsTurnOnly ==
    last.op = "gear" =>
        /\ Len(robots) = Len(last.before)
        /\ \A j \in 1..Len(last.before) :
              LET was == last.before[j]
                  now == robots[j]
              IN now = IF ~inactive(was) /\ HasTile(was.coordinates, "gear")
                       THEN [was EXCEPT !.direction =
                                Turned(was.direction,
                                       TheTile(was.coordinates, "gear").move_direction)]
                       ELSE was

\* At an even register a robot facing S on the gear turning right faces W,
\* and an inactive robot is as it was.
C26_Witness ==
    /\ last.op = "gear"
    /\ game_round % 2 = 0
    /\ \E j, k \in 1..Len(last.before) :
          /\ ~inactive(last.before[j])
          /\ HasTile(last.before[j].coordinates, "gear")
          /\ TheTile(last.before[j].coordinates, "gear").move_direction = RIGHT
          /\ last.before[j].direction = S
          /\ robots[j].direction = W
          /\ inactive(last.before[k])
          /\ robots[k] = last.before[k]

\* The robot stands, active, on a rotating belt or a crossroad.
OnTurningBelt(robot) ==
    /\ ~inactive(robot)
    /\ HasTile(robot.coordinates, "belt")
    /\ TheTile(robot.coordinates, "belt").direction_out \in Rotation

\* The steps of the last belt scan that carried the robot to the cell it is on.
CarriedBy(robot) ==
    {k \in StepsOnto : /\ last.steps[k].robot = robot.name
                       /\ last.steps[k].to = robot.coordinates}

\* The direction of a robot that a belt has carried, travelling in a
\* direction, onto a cell: a crossroad turns it right when it comes from the
\* crossroad's left and left otherwise, a rotating belt turns it to its side
\* when it comes along the belt's direction.
Entered(direction, coordinates, travel) ==
    IF ~HasTile(coordinates, "belt") THEN direction
    ELSE LET tile == TheTile(coordinates, "belt")
         IN IF tile.direction_out = U_TURN
            THEN IF travel = Turned(tile.direction, RIGHT)
                 THEN Turned(direction, RIGHT)
                 ELSE Turned(direction, LEFT)
            ELSE IF tile.direction_out \in {LEFT, RIGHT} /\ travel = tile.direction
                 THEN Turned(direction, tile.direction_out)
                 ELSE direction

(***************************************************************************)
(* C27 as stated: a robot keeps its direction through a movement card, and *)
(* a robot that a card has brought onto a rotating belt or a crossroad has *)
(* the same direction when the tile effects of the register are over.      *)
(***************************************************************************)
C27_CardKeepsDirection ==
    /\ last.op = "walk" =>
          \A j \in 1..Len(robots) : robots[j].direction = last.before[j].direction
    /\ RegisterDone =>
          \A j \in 1..Len(entry.call) :
              OnTurningBelt(entry.call[j]) =>
                  robots[j].direction = entry.call[j].direction

(***************************************************************************)
(* C27 amended: a robot keeps its direction through a movement card; a     *)
(* belt scan turns a robot only when it has just carried the robot onto a  *)
(* rotating belt or a crossroad, by that tile's rule of entry; the passes' *)
(* ends, the pushers, the lasers, the flags and the repairs turn nobody.   *)
(***************************************************************************)
C27_TurnedOnEntryOnly ==
    /\ last.op = "walk" =>
          \A j \in 1..Len(robots) : robots[j].direction = last.before[j].direction
    /\ last.op = "belt_scan" =>
          \A j \in 1..Len(robots) :
              robots[j].direction =
                 IF CarriedBy(robots[j]) # {}
                 THEN Entered(last.before[j].direction, robots[j].coordinates,
                              last.steps[CHOOSE k \in CarriedBy(robots[j]) : TRUE].direction)
                 ELSE last.before[j].direction
    /\ last.op \in {"apply_tile_effects", "belt_pass", "pusher", "laser", "flag",
                    "apply_tile_effects_done"} =>
          \A j \in 1..Len(robots) : robots[j].direction = last.before[j].direction

\* A card has brought a robot onto a rotating belt; the belt has carried it
\* onto the next rotating belt, which has turned it.
C27_Witness ==
    /\ last.op = "belt_scan"
    /\ ops = 1
    /\ \E j \in 1..Len(robots) :
          /\ OnTurningBelt(entry.call[j])
          /\ last.before[j] = entry.call[j]
          /\ CarriedBy(robots[j]) # {}
          /\ OnTurningBelt(robots[j])
          /\ robots[j].direction # entry.call[j].direction

(***************************************************************************)
(* SpecTiles: one tile built by select_tile from a descriptor of a map:    *)
(* its direction, its type and the values of its properties.               *)
(***************************************************************************)
\* The types select_tile knows.
TILE_CLS ==
    {"wall", "starting_square", "hole", "laser", "gear", "pusher", "belt", "flag",
     "repair", "ground"}

\* BeltTile.transform_direction: no branch for any other integer, the method
\* then ends without a return statement and gives None.
BeltTile_transform_direction(direction_integer) ==
    CASE direction_integer = 0 -> N
      [] direction_integer = 90 -> RIGHT
      [] direction_integer = -90 -> LEFT
      [] direction_integer = 180 -> U_TURN
      [] OTHER -> None

\* GearTile.transform_direction: None for any other string.
GearTile_transform_direction(direction_string) ==
    CASE direction_string = "left" -> LEFT
      [] direction_string = "right" -> RIGHT
      [] OTHER -> None

\* The outcome of a construction: the exception raised ("" when none) and the
\* tile built.
Built(tile) == [raised |-> "", tile |-> tile]
Raised(exception) == [raised |-> exception, tile |-> GroundTile]

\* GearTile.__init__
GearTile_init(direction, properties) ==
    IF Len(properties) < 1 THEN Raised("IndexError")
    ELSE Built([Tile("gear", direction) EXCEPT
                    !.move_direction = GearTile_transform_direction(properties[1])])

\* BeltTile.__init__
BeltTile_init(direction, properties) ==
    IF Len(properties) < 2 THEN Raised("IndexError")
    ELSE Built([Tile("belt", direction) EXCEPT
                    !.direction_out = BeltTile_transform_direction(properties[1]),
                    !.express = properties[2]])

\* select_tile: TILE_CLS[type](direction, path, properties); properties is
\* the sequence of the "value" entries of the descriptor.
select_tile(direction, type, properties) ==
    IF type \notin TILE_CLS THEN Raised("KeyError")
    ELSE CASE type = "belt" -> BeltTile_init(direction, properties)
           [] type = "gear" -> GearTile_init(direction, properties)
           [] type = "pusher" ->
                IF Len(properties) < 1 THEN Raised("IndexError")
                ELSE Built([Tile(type, direction) EXCEPT !.register = properties[1]])
           [] type = "laser" ->
                IF Len(properties) < 2 THEN Raised("IndexError")
                ELSE Built([Tile(type, direction) EXCEPT
                                !.laser_strength = properties[1],
                                !.laser_start = properties[2]])
           [] type = "flag" ->
                IF Len(properties) < 1 THEN Raised("IndexError")
                ELSE Built([Tile(type, direction) EXCEPT !.flag_number = properties[1]])
           [] type = "repair" ->
                IF Len(properties) < 1 THEN Raised("IndexError")
                ELSE Built([Tile(type, direction) EXCEPT !.new_start = properties[1]])
           [] OTHER -> Built(Tile(type, direction))

\* Values of the property of a belt and of a gear in the descriptors tried,
\* recognised ones and others.
BeltValues == {0, 90, -90, 180, 270, 45}
GearValues == {"left", "right", "up", "LEFT"}

\* The cell the tile is built for.
Site == <<0, 0>>

InitTiles ==
    /\ board = [c \in {Site} |-> <<>>]
    /\ robots = <<>>
    /\ game_round = 1
    /\ pc = "idle"
    /\ express = TRUE
    /\ robots_to_move = <<>>
    /\ belt_tiles = <<>>
    /\ ops = 0
    /\ last = NoCall
    /\ entry = [call |-> <<>>, pass |-> <<>>]

\* One call of select_tile; the tile built is put on the cell, a raised
\* exception leaves the cell as it was.
Select(direction, type, properties) ==
    LET made == select_tile(direction, type, properties) IN
    /\ board' = IF made.raised = "" THEN [board EXCEPT ![Site] = Append(@, made.tile)]
                ELSE board
    /\ last' = Call("select_tile", 0, 0, direction,
                    <<[type |-> type, properties |-> properties,
                       raised |-> made.raised, tile |-> made.tile]>>)
    /\ ops' = ops + 1
    /\ UNCHANGED <<robots, game_round, pc, express, robots_to_move, belt_tiles, entry>>

SelectTile ==
    /\ ops = 0
    /\ \E direction \in Direction :
          \/ \E type \in {"wall", "starting_square", "hole", "ground", "teleport"} :
                Select(direction, type, <<>>)
          \/ \E value \in BeltValues : \E is_express \in BOOLEAN :
                Select(direction, "belt", <<value, is_express>>)
          \/ \E value \in BeltValues : Select(direction, "belt", <<value>>)
          \/ \E value \in GearValues : Select(direction, "gear", <<value>>)
          \/ \E parity \in 0..1 : Select(direction, "pusher", <<parity>>)
          \/ \E strength \in 1..3 : \E is_start \in BOOLEAN :
                Select(direction, "laser", <<strength, is_start>>)
          \/ \E number \in 1..2 : Select(direction, "flag", <<number>>)
          \/ \E new_start \in BOOLEAN : Select(direction, "repair", <<new_start>>)

NextTiles == SelectTile

SpecTiles == InitTiles /\ [][NextTiles]_vars

\* C28: a descriptor of an unknown type, or a belt or gear descriptor whose
\* direction or side value is not a recognised one, makes select_tile raise;
\* no belt or gear is built with None as its rotation.
C28_MalformedRejected ==
    last.op = "select_tile" =>
        LET made == last.steps[1] IN
        /\ made.type \notin TILE_CLS => made.raised # ""
        /\ made.type = "belt" /\ made.properties[1] \notin {0, 90, -90, 180}
              => made.raised # ""
        /\ made.type = "gear" /\ made.properties[1] \notin {"left", "right"}
              => made.raised # ""
        /\ made.raised = "" /\ made.type = "belt" => made.tile.direction_out # None
        /\ made.raised = "" /\ made.type = "gear" => made.tile.move_direction # None

(***************************************************************************)
(* SpecStart: the game from the start state built by get_robots_to_start   *)
(* on a board whose starting squares face different directions.            *)
(***************************************************************************)
\* A starting square with a direction of its own.
StartTileFacing(number, direction) == [StartTile(number) EXCEPT !.direction = direction]

\* A 3 x 2 board with three starting squares in a row; a belt under the
\* second one carries a robot off the board.
\*   y=1:  ground      ground            ground
\*   y=0:  start1 (E)  start2 (S)+belt S start3 (W)
StartBoard ==
    [c \in Grid(3, 2) |->
        CASE c = <<0, 0>> -> <<GroundTile, StartTileFacing(1, E)>>
          [] c = <<1, 0>> -> <<GroundTile, StartTileFacing(2, S), BeltTile(S, N, FALSE)>>
          [] c = <<2, 0>> -> <<GroundTile, StartTileFacing(3, W)>>
          [] OTHER -> <<GroundTile>>]

\* The lists get_starting_coordinates can return: the cells with a starting
\* square, in the order of the items of the board dictionary.
starting_coordinates(b) ==
    Placements(get_starting_coordinates(b), Cardinality(get_starting_coordinates(b)))

\* get_robots_to_start that puts the robots on the starting squares from the
\* last one of the list backwards.
get_robots_to_start_backwards(coordinates, robot_paths) ==
    [j \in 1..(IF robot_paths < Len(coordinates) THEN robot_paths ELSE Len(coordinates)) |->
        Robot(N, j, coordinates[Len(coordinates) + 1 - j])]

\* get_robots_to_start: a robot facing N for each coordinate of the list, in
\* its order, as long as an avatar is left in robot_paths (their number here).
get_robots_to_start(coordinates, robot_paths) ==
    [j \in 1..(IF robot_paths < Len(coordinates) THEN robot_paths ELSE Len(coordinates)) |->
        Robot(N, j, coordinates[j])]

\* State.get_start_state; last keeps the list of starting coordinates and the
\* number of avatars the robots were made from.
InitGame ==
    /\ board = StartBoard
    /\ \E coordinates \in starting_coordinates(StartBoard) : \E robot_paths \in 1..MaxRobots :
          /\ robots = get_robots_to_start(coordinates, robot_paths)
          /\ last = [op |-> "get_robots_to_start", robot |-> 0, distance |-> robot_paths,
                     direction |-> None, before |-> <<>>, steps |-> coordinates]
    /\ game_round = 1
    /\ pc = "idle"
    /\ express = TRUE
    /\ robots_to_move = <<>>
    /\ belt_tiles = <<>>
    /\ ops = 0
    /\ entry = [call |-> robots, pass |-> robots]

\* One card at most is played in a behaviour, before or between the registers.
FirstCard == ops = 0 /\ (CardWalk \/ CardRotate)

NextGame == FirstCard \/ TileEffects \/ NextRegister

SpecStart == InitGame /\ [][NextGame]_vars

\* The state is the start state: nothing has been called since get_start_state.
StartState == last.op = "get_robots_to_start"

\* The starting square of a cell.
StartSquare(coordinates) == TheTile(coordinates, "starting_square")

\* C29: in the start state the direction of every robot is the direction of
\* the starting square it stands on.
C29_FacesAsStartTile ==
    StartState =>
        \A j \in 1..Len(robots) :
            robots[j].direction = StartSquare(robots[j].coordinates).direction

\* In the start state the j-th robot stands on the j-th starting coordinate of
\* the list, which is its start_coordinates too, and no two robots share a cell.
InStartTileOrder ==
    /\ Len(robots) <= Len(last.steps)
    /\ \A j \in 1..Len(robots) :
          /\ robots[j].coordinates = last.steps[j]
          /\ robots[j].start_coordinates = robots[j].coordinates
    /\ \A j, k \in 1..Len(robots) : j # k => robots[j].coordinates # robots[k].coordinates

\* The place of the robot of a name in a sequence of robots.
Place(rs, name) == CHOOSE j \in 1..Len(rs) : rs[j].name = name

\* A step keeps the robots of state.robots in their relative order, and all
\* of them unless it is the sweep.
OrderKept ==
    /\ \A j \in 1..Len(robots') : HasName(robots, robots'[j].name)
    /\ \A j, k \in 1..Len(robots') :
          j < k => Place(robots, robots'[j].name) < Place(robots, robots'[k].name)
    /\ Len(robots') # Len(robots) => SweepStep

BeamBoard ==
    [c \in Grid(3, 3) |->
        CASE c = <<1, 2>> -> <<GroundTile, LaserTile(E, 1, FALSE)>>
          [] c = <<2, 2>> -> <<GroundTile, LaserTile(E, 1, FALSE)>>
          [] c = <<0, 1>> -> <<GroundTile, LaserTile(N, 1, FALSE)>>
          [] c = <<0, 0>> -> <<GroundTile, LaserTile(N, 1, FALSE), LaserTile(N, 1, TRUE)>>
          [] c = <<1, 0>> -> <<GroundTile, BeltTile(E, N, FALSE)>>
          [] OTHER -> <<GroundTile>>]

InitBeams == InitOn(BeamBoard, Standable(BeamBoard))

SpecBeams == InitBeams /\ [][NextSites]_vars

\* C31: the scan of shoot_robot ends for every robot of the laser stage, also
\* when it leaves the board without meeting a robot or the start of the laser.
C31_ScanEnds ==
    pc = "laser" =>
        ~laser_robots([robots |-> robots, looping |-> FALSE], active_robots(robots), 1).looping

(***************************************************************************)
(* SpecTurned: one call of walk, move or rotate on the board of walls and   *)
(* holes, the first robot facing any direction.                             *)
(***************************************************************************)
InitTurned ==
    /\ board = WallBoard
    /\ \E n \in 1..MaxRobots : \E p \in Placements(Standable(WallBoard), n) :
          \E direction \in Direction :
             robots = [j \in 1..n |-> Robot(IF j = 1 THEN direction ELSE N, j, p[j])]
    /\ game_round = 1
    /\ pc = "idle"
    /\ express = TRUE
    /\ robots_to_move = <<>>
    /\ belt_tiles = <<>>
    /\ ops = 0
    /\ last = NoCall
    /\ entry = [call |-> robots, pass |-> robots]

SpecTurned == InitTurned /\ [][NextMove]_vars

(***************************************************************************)
(* C32: a walk backwards is a forward walk in the opposite direction.      *)
(***************************************************************************)
\* The last call is a walk backwards along the robot's own facing.
BackwardWalk == last.op = "walk" /\ last.distance < 0 /\ last.direction = None

\* The robots a forward walk of the same number of steps in the direction
\* opposite to the walker's facing, made from the same state, leaves.
ForwardInstead ==
    walk([robots |-> last.before, steps |-> <<>>], IndexOf(last.before, last.robot),
         -last.distance, get_new_direction(Walker.direction, U_TURN), 0).robots

\* C32: a walk of distance -D leaves every robot as a forward walk of D steps
\* in the direction opposite to the walker's facing does (same walls, same
\* robots pushed one cell in the direction of travel, same deaths on holes);
\* the walker ends at most D cells behind its cell or inactive, and a walker
\* that survives faces as it did before the call.
C32_BackwardAsForward ==
    BackwardWalk =>
        /\ robots = ForwardInstead
        /\ \/ inactive(ByName(robots, last.robot))
           \/ \E k \in 0..(-last.distance) :
                 ByName(robots, last.robot).coordinates =
                     Ahead(Walker.coordinates, TravelDirection, k)
        /\ \A k \in 1..Len(last.steps) :
              last.steps[k].direction = get_new_direction(Walker.direction, U_TURN)
        /\ ~inactive(ByName(robots, last.robot)) =>
              ByName(robots, last.robot).direction = Walker.direction

\* A walk of two steps backwards has pushed another robot two cells in the
\* direction of travel; the walker has followed it and faces as before.
C32_Witness ==
    /\ BackwardWalk /\ last.distance = -2
    /\ ~inactive(Walker)
    /\ ByName(robots, last.robot).coordinates = Ahead(Walker.coordinates, TravelDirection, 2)
    /\ \E j \in 1..Len(last.before) :
          /\ last.before[j].coordinates = Ahead(Walker.coordinates, TravelDirection, 1)
          /\ ByName(robots, last.before[j].name).coordinates =
                Ahead(Walker.coordinates, TravelDirection, 3)
          /\ ByName(robots, last.before[j].name).direction = last.before[j].direction

(***************************************************************************)
(* SpecTurns: registers of tile effects on the board of rotating belts and *)
(* on the board of belts with the T crossroad.                             *)
(***************************************************************************)
InitTurns ==
    \/ InitOn(TurnBoard, Standable(TurnBoard))
    \/ InitOn(BeltBoard, Standable(BeltBoard))

SpecTurns == InitTurns /\ [][NextSites]_vars

\* C33: a belt scan turns a robot only when it has carried the robot onto a
\* belt, and then by the geometry of that belt: a straight belt turns nobody;
\* a belt turning LEFT or RIGHT turns the robot to its side exactly when the
\* robot came in along the belt's direction; a crossroad (U_TURN) turns the
\* robot RIGHT when it came in along the crossroad's direction turned RIGHT
\* and LEFT otherwise.  Nothing else in the transport by belts turns a robot.
C33_TurnedByGeometry ==
    /\ last.op = "belt_scan" =>
          \A j \in 1..Len(robots) :
              IF CarriedBy(robots[j]) # {} /\ HasTile(robots[j].coordinates, "belt")
              THEN LET tile == TheTile(robots[j].coordinates, "belt")
                       travel == last.steps[CHOOSE k \in CarriedBy(robots[j]) : TRUE].direction
                   IN CASE tile.direction_out \in {LEFT, RIGHT} ->
                             robots[j].direction =
                                 IF travel = tile.direction
                                 THEN Turned(last.before[j].direction, tile.direction_out)
                                 ELSE last.before[j].direction
                        [] tile.direction_out = U_TURN ->
                             robots[j].direction =
                                 IF travel = Turned(tile.direction, RIGHT)
                                 THEN Turned(last.before[j].direction, RIGHT)
                                 ELSE Turned(last.before[j].direction, LEFT)
                        [] OTHER -> robots[j].direction = last.before[j].direction
              ELSE robots[j].direction = last.before[j].direction
    /\ last.op \in {"apply_tile_effects", "belt_pass"} =>
          \A j \in 1..Len(robots) : robots[j].direction = last.before[j].direction

\* A belt has carried a robot onto a crossroad from the side that is not its
\* right one, and the crossroad has turned the robot left.
C33_Witness ==
    /\ last.op = "belt_scan"
    /\ \E j \in 1..Len(robots) :
          /\ CarriedBy(robots[j]) # {}
          /\ HasTile(robots[j].coordinates, "belt")
          /\ TheTile(robots[j].coordinates, "belt").direction_out = U_TURN
          /\ last.steps[CHOOSE k \in CarriedBy(robots[j]) : TRUE].direction
                # Turned(TheTile(robots[j].coordinates, "belt").direction, RIGHT)
          /\ robots[j].direction = Turned(last.before[j].direction, LEFT)

(***************************************************************************)
(* SpecStacks: registers of tile effects on a board whose cells hold more  *)
(* than one pusher or laser.                                               *)
(***************************************************************************)
\* A 3 x 3 board of stacked tiles.
\*   y=2:  laser start E (6) + laser start S (6)   ground             flag 1 + repair
\*   y=1:  ground                                  2 pushers to the E ground
\*   y=0:  2 pushers to the S (off the board)      ground             belt N
StackBoard ==
    [c \in Grid(3, 3) |->
        CASE c = <<0, 2>> -> <<GroundTile, LaserTile(E, 6, TRUE), LaserTile(S, 6, TRUE)>>
          [] c = <<2, 2>> -> <<GroundTile, FlagTile(1), RepairTile(TRUE)>>
          [] c = <<1, 1>> -> <<GroundTile, PusherTile(W, 1), PusherTile(W, 1)>>
          [] c = <<0, 0>> -> <<GroundTile, PusherTile(N, 1), PusherTile(N, 1)>>
          [] c = <<2, 0>> -> <<GroundTile, BeltTile(N, N, FALSE)>>
          [] OTHER -> <<GroundTile>>]

InitStacks == InitOn(StackBoard, Standable(StackBoard))

SpecStacks == InitStacks /\ [][NextSites]_vars

\* C34: the pusher stage and the laser stage take one life from a robot they
\* make inactive and none from any other, however many tiles of the stack
\* under the robot could have killed it, and leave a robot that was inactive
\* already as it was; the stage of flags and repairs leaves every inactive
\* robot as it was.
C34_OneLifePerStage ==
    /\ last.op \in {"pusher", "laser"} =>
          \A j \in 1..Len(robots) :
              /\ robots[j].lives =
                    IF inactive(robots[j]) /\ ~inactive(last.before[j])
                    THEN last.before[j].lives - 1
                    ELSE last.before[j].lives
              /\ inactive(last.before[j]) => robots[j] = last.before[j]
    /\ last.op = "flag" =>
          \A j \in 1..Len(robots) :
              inactive(last.before[j]) => robots[j] = last.before[j]

\* The first of the two lasers of a cell has killed the robot standing there:
\* one life is gone, and the robot is left out of the flags and repairs.
C34_Witness ==
    /\ last.op = "flag"
    /\ \E j \in 1..Len(robots) :
          /\ entry.call[j].coordinates = <<0, 2>>
          /\ inactive(last.before[j])
          /\ robots[j].lives = entry.call[j].lives - 1

(***************************************************************************)
(* SpecAnchors: registers of tile effects, one after the other, on a board *)
(* whose flag and repair sites lie under lasers; the robots start off the  *)
(* sites.                                                                  *)
(***************************************************************************)
\* A 3 x 2 board.
\*   y=1:  repair            belt E   repair (new start) + laser start S (3)
\*   y=0:  belt E            flag 1 + laser start E (3)   belt E (off the board)
AnchorBoard ==
    [c \in Grid(3, 2) |->
        CASE c = <<0, 1>> -> <<GroundTile, RepairTile(FALSE)>>
          [] c = <<1, 1>> -> <<GroundTile, BeltTile(E, N, FALSE)>>
          [] c = <<2, 1>> -> <<GroundTile, RepairTile(TRUE), LaserTile(S, 3, TRUE)>>
          [] c = <<0, 0>> -> <<GroundTile, BeltTile(E, N, FALSE)>>
          [] c = <<1, 0>> -> <<GroundTile, FlagTile(1), LaserTile(E, 3, TRUE)>>
          [] c = <<2, 0>> -> <<GroundTile, BeltTile(E, N, FALSE)>>
          [] OTHER -> <<GroundTile>>]

\* The cells of a board without a flag.
OffFlags(b) == {c \in DOMAIN b : \A k \in 1..Len(b[c]) : b[c][k].type # "flag"}

InitAnchors == InitOn(AnchorBoard, OffFlags(AnchorBoard))

SpecAnchors == InitAnchors /\ [][NextRepairs]_vars

\* The site under a robot writes start_coordinates: a flag, or a repair site
\* that is a new start.
WritesStart(robot) ==
    \/ HasTile(robot.coordinates, "flag")
    \/ /\ HasTile(robot.coordinates, "repair")
       /\ TheTile(robot.coordinates, "repair").new_start

\* C35: the start_coordinates of every robot are a cell of the board (never
\* the place of the inactive robots); only the stage of flags and repairs
\* changes them, for a robot that is active on a flag or on a repair site
\* that is a new start, to the robot's coordinates; every robot the sweep
\* leaves in state.robots is active.
C35_AnchorOnBoard ==
    /\ \A j \in 1..Len(robots) :
          /\ robots[j].start_coordinates \in DOMAIN board
          /\ robots[j].start_coordinates # Inactive
    /\ last.op # "none" =>
          \A j \in 1..Len(robots) :
              LET before == ByName(last.before, robots[j].name)
              IN robots[j].start_coordinates # before.start_coordinates =>
                    /\ last.op = "flag"
                    /\ ~inactive(before)
                    /\ WritesStart(before)
                    /\ robots[j].start_coordinates = before.coordinates
    /\ last.op = "set_robots_for_new_turn" =>
          \A j \in 1..Len(robots) : ~inactive(robots[j])

\* The sweep has put an inactive robot back on the cell of the flag, where
\* the robot did not start: the flag has made the cell its start_coordinates.
C35_Witness ==
    /\ last.op = "set_robots_for_new_turn"
    /\ \E j \in 1..Len(robots) :
          /\ inactive(ByName(last.before, robots[j].name))
          /\ HasTile(robots[j].coordinates, "flag")
          /\ robots[j].coordinates = robots[j].start_coordinates

(***************************************************************************)
(* C36: what a walk does to the robots it pushes.                          *)
(***************************************************************************)
\* The robot is where it was, or up to the distance of the walk further in
\* the walker's direction of travel, with its lives; or it is inactive with
\* one life less, a Hole (or no cell of the board) lying that way.
Displaced(before, after) ==
    \/ /\ after.coordinates = before.coordinates
       /\ after.lives = before.lives
    \/ /\ \E k \in 1..Abs(last.distance) :
             after.coordinates = Ahead(before.coordinates, TravelDirection, k)
       /\ after.lives = before.lives
    \/ /\ ~inactive(before)
       /\ inactive(after)
       /\ after.lives = before.lives - 1
       /\ \E k \in 1..Abs(last.distance) :
             HasHole(Ahead(before.coordinates, TravelDirection, k))

\* C36: a call of walk leaves the direction, the damages, the flags and the
\* start_coordinates of every robot but the walker as they were, and displaces
\* such a robot only in the walker's direction of travel, whatever the robot
\* faces; the robot loses a life only when it is pushed onto a Hole or off
\* the board.
C36_PushedKeepsTheRest ==
    last.op = "walk" =>
        \A j \in 1..Len(last.before) :
            last.before[j].name # last.robot =>
                LET before == last.before[j]
                    after == ByName(robots, last.before[j].name)
                IN /\ after.direction = before.direction
                   /\ after.damages = before.damages
                   /\ after.flags = before.flags
                   /\ after.start_coordinates = before.start_coordinates
                   /\ Displaced(before, after)

\* A walk has pushed a robot one cell in a direction the robot does not face.
C36_Witness ==
    /\ last.op = "walk"
    /\ \E j \in 1..Len(last.before) :
          /\ last.before[j].name # last.robot
          /\ last.before[j].direction # TravelDirection
          /\ get_new_direction(last.before[j].direction, U_TURN) # TravelDirection
          /\ robots[j] = [last.before[j] EXCEPT
                             !.coordinates = Ahead(last.before[j].coordinates, TravelDirection, 1)]

(***************************************************************************)
(* C37: the sweep changes nothing of a robot that is active when it runs   *)
(* and keeps such a robot in state.robots; of a robot it puts back it      *)
(* changes neither the lives, nor the flags, nor the start_coordinates.    *)
(***************************************************************************)
C37_SweepFrame ==
    last.op = "set_robots_for_new_turn" =>
        \A j \in 1..Len(last.before) :
            LET was == last.before[j]
            IN IF ~inactive(was)
               THEN HasName(robots, was.name) /\ ByName(robots, was.name) = was
               ELSE HasName(robots, was.name) =>
                       /\ ByName(robots, was.name).lives = was.lives
                       /\ ByName(robots, was.name).flags = was.flags
                       /\ ByName(robots, was.name).start_coordinates = was.start_coordinates

\* A sweep has put back a robot that holds a flag, next to an active robot
\* with damages, which it has left as it was.
C37_Witness ==
    /\ last.op = "set_robots_for_new_turn"
    /\ \E j, k \in 1..Len(last.before) :
          /\ inactive(last.before[j])
          /\ last.before[j].flags = 1
          /\ HasName(robots, last.before[j].name)
          /\ ~inactive(ByName(robots, last.before[j].name))
          /\ ~inactive(last.before[k])
          /\ last.before[k].damages > 0
          /\ ByName(robots, last.before[k].name) = last.before[k]

====
